---- MODULE Spec2Model ----
(***************************************************************************)
(* Farm-AdvisorV1: the dispatch graph of src/src/graph/multi_agent_graph.py *)
(* (supervisor node, five specialist nodes, human node, route_agent) and    *)
(* the entry point run_farm_advisor with its long-term memory_store.        *)
(*                                                                         *)
(* Texts are sequences of one-character strings.  A fixed message of the   *)
(* program is a one-element sequence holding the message's name.           *)
(***************************************************************************)
EXTENDS Integers, Sequences, FiniteSets, TLC

\* ------------------------------------------------------------------ bounds

\* Calls of run_farm_advisor in one behaviour.
MaxTurns == 2

\* Largest iteration_count a caller of the compiled graph hands in (SpecGraph).
MaxCount == 12

\* Tool calls an agent makes at most within one invocation.
MaxToolCalls == 2

\* Largest farm_id an agent passes to save_recommendation or save_plan.
MaxFarmId == 2

\* Rows a table holds at most when the Repository is called directly
\* (SpecRepo); all tables together hold at most two more.
MaxRows == 2

\* Longest text (in tokens) the backend answers the JSON-mode probe with.
MaxProbeLen == 3

\* ------------------------------------------------------- program constants

\* The supervisor's emergency-exit threshold: iteration_count > 10.
Ceiling == 10

\* session_id = None (the default argument); uuid4 tokens are 1, 2, ...
NoSession == 0

\* A session id the caller made up itself (never drawn by uuid4).
CallerToken == -1

\* get_ollama_chat_completion: attempts per call.
max_attempts == 2

\* config["recursion_limit"]: the steps graph.invoke takes at most before it
\* raises GraphRecursionError.
recursion_limit == 50

\* ------------------------------------------------------------------- texts

Min(a, b) == IF a < b THEN a ELSE b

\* str.find(ch): 0-based index of the first occurrence, -1 when absent.
find(s, ch) ==
    IF \E i \in 1..Len(s) : s[i] = ch
    THEN (CHOOSE i \in 1..Len(s) : s[i] = ch /\ \A j \in 1..(i-1) : s[j] # ch) - 1
    ELSE -1

\* str.rfind(ch): 0-based index of the last occurrence, -1 when absent.
rfind(s, ch) ==
    IF \E i \in 1..Len(s) : s[i] = ch
    THEN (CHOOSE i \in 1..Len(s) : s[i] = ch /\ \A j \in (i+1)..Len(s) : s[j] # ch) - 1
    ELSE -1

\* Python's s[a:b] for 0 <= a, 0 <= b.
slice(s, a, b) == SubSeq(s, a + 1, Min(b, Len(s)))

Whitespace == {" ", "NL"}

\* str.strip(): leading and trailing whitespace removed.
strip(s) ==
    IF \A i \in 1..Len(s) : s[i] \in Whitespace
    THEN << >>
    ELSE LET lo == CHOOSE i \in 1..Len(s) :
                      s[i] \notin Whitespace /\ \A j \in 1..(i-1) : s[j] \in Whitespace
             hi == CHOOSE i \in 1..Len(s) :
                      s[i] \notin Whitespace /\ \A j \in (i+1)..Len(s) : s[j] \in Whitespace
         IN  SubSeq(s, lo, hi)

\* str.startswith(prefix)
startswith(s, p) == Len(s) >= Len(p) /\ SubSeq(s, 1, Len(p)) = p

\* str.split("\n"): the lines of a text.
RECURSIVE split_lines(_)
split_lines(s) ==
    LET k == find(s, "NL")
    IN  IF k < 0 THEN << s >>
        ELSE << SubSeq(s, 1, k) >> \o split_lines(SubSeq(s, k + 2, Len(s)))

\* The members a JSON object of the model can hold: "L" stands for the member
\* "location": ..., "S" for "soil_type": ...; every other character inside the
\* braces makes the span invalid JSON.
JsonMembers == {"L", "S"}

\* json.loads on a span: ok = FALSE is the exception it raises; value is the
\* dict, as the set of its keys.
json_loads(span) ==
    IF /\ Len(span) >= 2
       /\ span[1] = "{"
       /\ span[Len(span)] = "}"
       /\ \A i \in 2..(Len(span) - 1) : span[i] \in JsonMembers
    THEN [ok |-> TRUE, value |-> {span[i] : i \in 2..(Len(span) - 1)}]
    ELSE [ok |-> FALSE, value |-> {}]

\* ---------------------------------------------------------------- messages

\* The fixed assistant messages of multi_agent_graph.py.
CeilingMsg       == << "I apologize, but I'm having trouble processing your request efficiently." >>
SupervisorErrMsg == << "I'm sorry, I encountered an error while processing your request. Please try again." >>
ConvErrMsg       == << "I'm sorry, I encountered an error while processing your request as a conversational agent." >>
ExtractErrMsg    == << "I'm sorry, I encountered an error while extracting data from your request." >>
PlanErrMsg       == << "I'm sorry, I encountered an error while creating a plan based on your request." >>
RecErrMsg        == << "I'm sorry, I encountered an error while generating recommendations for your request." >>
DirectErrMsg     == << "I'm sorry, I encountered an error while processing your request directly." >>
GraphErrMsg      == << "I'm sorry, I encountered an error. Please try again." >>
ExtractAck       == << "I've analyzed your information and extracted the key details." >>
ExtractAckData   == << "I've analyzed your information and extracted the key details.",
                       " Here's what I understood from your input." >>
PlanAck          == << "I've created a planning schedule based on your information." >>

\* A message object; id = 0 is a message that has no id yet.
AIMessage(content)    == [id |-> 0, type |-> "ai", content |-> content]
HumanMessage(content) == [id |-> 0, type |-> "human", content |-> content]

\* The reducer of MessagesState.messages: a message of `right` whose id is
\* already in `left` replaces that message in place; any other is appended, and
\* one that has no id is given a fresh one (here: its position in the list).
RECURSIVE add_messages(_, _)
add_messages(left, right) ==
    IF right = << >> THEN left
    ELSE LET m == Head(right)
             known == m.id # 0 /\ \E i \in 1..Len(left) : left[i].id = m.id
             merged ==
                 IF known
                 THEN [i \in 1..Len(left) |-> IF left[i].id = m.id THEN m ELSE left[i]]
                 ELSE Append(left, IF m.id = 0 THEN [m EXCEPT !.id = Len(left) + 1] ELSE m)
         IN  add_messages(merged, Tail(right))

\* A node's return value merged into the graph state: `messages` through its
\* reducer, every other key overwritten, keys the node did not return kept.
apply_update(state, update) ==
    [k \in DOMAIN state |->
        IF k \notin DOMAIN update THEN state[k]
        ELSE IF k = "messages" THEN add_messages(state[k], update[k])
        ELSE update[k]]

\* ------------------------------------------------------------- collaborators

\* One call a node makes to an agent, with the structured context it put into
\* the prompt (the key sets of extracted_data and planning_data; empty when the
\* prompt carries none).
AgentCall(agent, extracted, planning) ==
    [to |-> agent, extracted |-> extracted, planning |-> planning]

\* What the supervisor model can answer, word by word.
Words == {"conversational", "data_extraction", "planning", "recommendation",
          "respond_directly", "direct_response", "Planning", "recommendations", "sure"}

\* str.lower() of a word.
lower(w) == IF w = "Planning" THEN "planning" ELSE w

\* Whether `key` is a substring of the (lower-cased) word.
is_substring(key, w) == key = w \/ (key = "recommendation" /\ w = "recommendations")

\* key in text.lower()
occurs_in(key, text) == \E i \in 1..Len(text) : is_substring(key, lower(text[i]))

ClassifierAnswers == {<< w >> : w \in Words} \cup {<< v, w >> : v \in Words, w \in Words}

\* What a specialist model can generate.
ResponseTexts ==
    { << "x" >>,
      << "x", "{", "L", "}" >>,
      << "{", "L", "S", "}" >>,
      << "{", "}" >>,
      << "{", "x", "}" >>,
      << "-", " ", "x", "NL", "x" >> }

\* What an agent whose text the node only copies can generate.
ChatTexts == { << "x" >>, << "x", "{", "L", "}" >> }

\* What the recommendation agent can generate (with and without bullets).
AdviceTexts == { << "x" >>, << "x", "{", "L", "}" >>, << "-", " ", "x", "NL", "x" >> }

\* The outcome of one agent call: the factory raises (TypeError: a required
\* argument is missing), the invocation raises, or a text comes back.
FactoryError == [kind |-> "factory_error", content |-> << >>]
InvokeError  == [kind |-> "invoke_error", content |-> << >>]
Answer(text) == [kind |-> "ok", content |-> text]

\* The human node calls no agent.
NoCall == [kind |-> "none", content |-> << >>]

\* Faulty variant: tools has a default, the factory returns an agent.
create_supervisor_agent_with_default(double, texts) ==
    {InvokeError} \cup {Answer(t) : t \in texts}

\* create_supervisor_agent(tools) has one required parameter; both call sites
\* pass none, so the call as written raises.  `double` is a test double put in
\* its place (the simulated classifier of the spec's scenarios).
create_supervisor_agent(double, texts) ==
    IF double THEN {InvokeError} \cup {Answer(t) : t \in texts} ELSE {FactoryError}

\* create_conversational_agent(), create_data_extraction_agent(), ... take no
\* argument; what their agent generates is the model's to decide.
create_specialist_agent(texts) == {InvokeError} \cup {Answer(t) : t \in texts}

\* -------------------------------------------------------------------- nodes
\* A node is an operator from the graph state and the outcome of the agent
\* call it may make to [update: the dict it returns, calls: the agent calls it
\* made].

\* agent_mapping, in the order the supervisor walks it.
agent_keys == << "conversational", "data_extraction", "planning", "recommendation",
                 "respond_directly" >>

\* Faulty variant: respond_directly is mapped to the default node.
agent_mapping_no_direct(key) ==
    CASE key = "conversational"   -> "conversational_agent"
      [] key = "data_extraction"  -> "data_extraction_agent"
      [] key = "planning"         -> "planning_agent"
      [] key = "recommendation"   -> "recommendation_agent"
      [] key = "respond_directly" -> "conversational_agent"

agent_mapping(key) ==
    CASE key = "conversational"   -> "conversational_agent"
      [] key = "data_extraction"  -> "data_extraction_agent"
      [] key = "planning"         -> "planning_agent"
      [] key = "recommendation"   -> "recommendation_agent"
      [] key = "respond_directly" -> "supervisor_response"

\* Faulty variant: without a match the supervisor answers itself.
selected_agent_default_direct(content) ==
    IF \E i \in 1..Len(agent_keys) : occurs_in(agent_keys[i], content)
    THEN agent_mapping(agent_keys[
            CHOOSE i \in 1..Len(agent_keys) :
                /\ occurs_in(agent_keys[i], content)
                /\ \A j \in 1..(i-1) : ~occurs_in(agent_keys[j], content)])
    ELSE "supervisor_response"

\* Faulty variant: the loop has no break, the last key that occurs selects.
selected_agent_last_match(content) ==
    IF \E i \in 1..Len(agent_keys) : occurs_in(agent_keys[i], content)
    THEN agent_mapping(agent_keys[
            CHOOSE i \in 1..Len(agent_keys) :
                /\ occurs_in(agent_keys[i], content)
                /\ \A j \in (i+1)..Len(agent_keys) : ~occurs_in(agent_keys[j], content)])
    ELSE "conversational_agent"

\* The loop over agent_mapping: the first key that occurs in the lower-cased
\* answer selects; without any, the default.
selected_agent(content) ==
    IF \E i \in 1..Len(agent_keys) : occurs_in(agent_keys[i], content)
    THEN agent_mapping(agent_keys[
            CHOOSE i \in 1..Len(agent_keys) :
                /\ occurs_in(agent_keys[i], content)
                /\ \A j \in 1..(i-1) : ~occurs_in(agent_keys[j], content)])
    ELSE "conversational_agent"

\* The key at which the loop over agent_mapping breaks; "none" when it runs to
\* its end.
matched_key(content) ==
    IF \E i \in 1..Len(agent_keys) : occurs_in(agent_keys[i], content)
    THEN agent_keys[CHOOSE i \in 1..Len(agent_keys) :
                        /\ occurs_in(agent_keys[i], content)
                        /\ \A j \in 1..(i-1) : ~occurs_in(agent_keys[j], content)]
    ELSE "none"

\* Faulty variant: the check reads the counter before the increment.
exceeds_ceiling_stale(count) == count - 1 > Ceiling

\* Faulty variant: the check cuts off one hop early.
exceeds_ceiling_at_ten(count) == count >= Ceiling

\* The emergency-exit check on the incremented counter.
exceeds_ceiling(count) == count > Ceiling

\* last_message.type == "human"
is_human_message(m) == m.type = "human"

\* Faulty variant: a failed classifier call falls back to the default route.
supervisor_except_defaults(state, count) ==
    [active_agent |-> "conversational_agent", iteration_count |-> count]

\* Faulty variant: a failed classifier call ends the turn without a message.
supervisor_except_silent(state, count) ==
    [active_agent |-> "human", iteration_count |-> count]

\* The except branch of the supervisor node.
supervisor_except(state, count) ==
    [messages |-> Append(state.messages, AIMessage(SupervisorErrMsg)),
     active_agent |-> "human", iteration_count |-> count]

create_supervisor_node(state, reply) ==
    LET count == state.iteration_count + 1
        back  == [active_agent |-> "human", iteration_count |-> count]
    IN  IF exceeds_ceiling(count)
        THEN [update |-> [messages |-> Append(state.messages, AIMessage(CeilingMsg)),
                          active_agent |-> "human", iteration_count |-> count],
              calls |-> << >>]
        ELSE IF state.messages = << >>
        THEN [update |-> back, calls |-> << >>]
        ELSE IF ~is_human_message(state.messages[Len(state.messages)])
        THEN [update |-> back, calls |-> << >>]
        ELSE IF reply.kind # "ok"
        THEN [update |-> supervisor_except(state, count),
              calls |-> << AgentCall("supervisor", {}, {}) >>]
        ELSE [update |-> [active_agent |-> selected_agent(reply.content),
                          iteration_count |-> count],
              calls |-> << AgentCall("supervisor", {}, {}) >>]

\* Faulty variant: the except branch also returns an empty extracted_data.
apology_clears_data(state, message) ==
    [messages |-> Append(state.messages, AIMessage(message)),
     extracted_data |-> {},
     active_agent |-> "human", iteration_count |-> 0]

\* The except branch the five specialist nodes share, up to the message.
apology(state, message) ==
    [messages |-> Append(state.messages, AIMessage(message)),
     active_agent |-> "human", iteration_count |-> 0]

\* Faulty variant: the node counts itself as a hop.
create_conversational_agent_node_counts(state, reply) ==
    [update |-> IF reply.kind # "ok" THEN apology(state, ConvErrMsg)
                ELSE [messages |-> Append(state.messages, AIMessage(reply.content)),
                      active_agent |-> "human",
                      iteration_count |-> state.iteration_count + 1],
     calls |-> << AgentCall("conversational", {}, {}) >>]

create_conversational_agent_node(state, reply) ==
    [update |-> IF reply.kind # "ok" THEN apology(state, ConvErrMsg)
                ELSE [messages |-> Append(state.messages, AIMessage(reply.content)),
                      active_agent |-> "human", iteration_count |-> 0],
     calls |-> << AgentCall("conversational", {}, {}) >>]

\* The span from the first "{" to the last "}" of a text, when there is one:
\* [found, start, end] with Python's json_start and json_end.
brace_span(content) ==
    LET json_start == find(content, "{")
        json_end   == rfind(content, "}") + 1
    IN  [found |-> json_start >= 0 /\ json_end > json_start,
         start |-> json_start, end |-> json_end]

\* How a node's attempt to parse went: no brace span in the text,
\* a span json.loads rejects, or a parsed object.
payload_class(content) ==
    LET span == brace_span(content)
    IN  IF ~span.found THEN "no_span"
        ELSE IF json_loads(slice(content, span.start, span.end)).ok THEN "parsed"
        ELSE "unparseable"

\* Faulty variant: without a parsed payload the user sees the raw text.
create_data_extraction_agent_node_raw_text(state, reply) ==
    LET span   == brace_span(reply.content)
        parsed == IF span.found THEN json_loads(slice(reply.content, span.start, span.end))
                  ELSE [ok |-> FALSE, value |-> {}]
        extracted_data == IF parsed.ok THEN parsed.value ELSE {}
        user_response  == IF extracted_data # {} THEN ExtractAckData ELSE reply.content
    IN  [update |-> IF reply.kind # "ok" THEN apology(state, ExtractErrMsg)
                    ELSE [messages |-> Append(state.messages, AIMessage(user_response)),
                          extracted_data |-> extracted_data,
                          active_agent |-> "human", iteration_count |-> 0],
         calls |-> << AgentCall("data_extraction", {}, {}) >>]

create_data_extraction_agent_node(state, reply) ==
    LET span   == brace_span(reply.content)
        parsed == IF span.found THEN json_loads(slice(reply.content, span.start, span.end))
                  ELSE [ok |-> FALSE, value |-> {}]
        extracted_data == IF parsed.ok THEN parsed.value ELSE {}
        user_response  == IF extracted_data # {} THEN ExtractAckData ELSE ExtractAck
    IN  [update |-> IF reply.kind # "ok" THEN apology(state, ExtractErrMsg)
                    ELSE [messages |-> Append(state.messages, AIMessage(user_response)),
                          extracted_data |-> extracted_data,
                          active_agent |-> "human", iteration_count |-> 0],
         calls |-> << AgentCall("data_extraction", {}, {}) >>]

create_planning_agent_node(state, reply) ==
    LET span   == brace_span(reply.content)
        parsed == IF span.found THEN json_loads(slice(reply.content, span.start, span.end))
                  ELSE [ok |-> FALSE, value |-> {}]
        clean  == strip(slice(reply.content, 0, span.start))
                      \o strip(slice(reply.content, span.end, Len(reply.content)))
        user_response ==
            IF span.found /\ parsed.ok
            THEN (IF clean = << >> THEN PlanAck ELSE clean)
            ELSE reply.content
    IN  [update |-> IF reply.kind # "ok" THEN apology(state, PlanErrMsg)
                    ELSE [messages |-> Append(state.messages, AIMessage(user_response)),
                          planning_data |-> IF parsed.ok THEN parsed.value ELSE {},
                          active_agent |-> "human", iteration_count |-> 0],
         calls |-> << AgentCall("planning", state.extracted_data, {}) >>]

\* The lines of a text that start, once stripped, with "- " or "* ", without
\* that prefix.
RECURSIVE bullet_lines(_)
bullet_lines(lines) ==
    IF lines = << >> THEN << >>
    ELSE LET line == strip(Head(lines))
         IN  (IF startswith(line, << "-", " " >>) \/ startswith(line, << "*", " " >>)
              THEN << slice(line, 2, Len(line)) >> ELSE << >>)
             \o bullet_lines(Tail(lines))

create_recommendation_agent_node(state, reply) ==
    [update |-> IF reply.kind # "ok" THEN apology(state, RecErrMsg)
                ELSE [messages |-> Append(state.messages, AIMessage(reply.content)),
                      recommendations |-> bullet_lines(split_lines(reply.content)),
                      active_agent |-> "human", iteration_count |-> 0],
     calls |-> << AgentCall("recommendation", state.extracted_data, state.planning_data) >>]

create_supervisor_response_node(state, reply) ==
    [update |-> IF reply.kind # "ok" THEN apology(state, DirectErrMsg)
                ELSE [messages |-> Append(state.messages, AIMessage(reply.content)),
                      active_agent |-> "human", iteration_count |-> 0],
     calls |-> << AgentCall("supervisor", {}, {}) >>]

\* Faulty variant: the human node leaves active_agent at "human".
human_input_node_stays_human(state) ==
    [update |-> [active_agent |-> "human", iteration_count |-> 0],
     calls |-> << >>]

human_input_node(state) ==
    [update |-> [active_agent |-> "supervisor", iteration_count |-> 0],
     calls |-> << >>]

\* Faulty variant: every specialist label is routed to the default node.
route_agent_to_default(state) ==
    IF state.active_agent = "human" THEN "END" ELSE "conversational_agent"

\* Faulty variant: "human" hands back to the supervisor instead of ending the run.
route_agent_reenters_supervisor(state) ==
    IF state.active_agent = "human" THEN "supervisor" ELSE state.active_agent

\* route_agent: the conditional edge out of the supervisor.
route_agent(state) ==
    IF state.active_agent = "human" THEN "END" ELSE state.active_agent

SpecialistNodes == {"conversational_agent", "data_extraction_agent", "planning_agent",
                    "recommendation_agent", "supervisor_response"}

\* Faulty variant: the extraction node chains into the recommendation node.
next_node_chains(node, state) ==
    IF node = "supervisor" THEN route_agent(state)
    ELSE IF node = "data_extraction_agent" THEN "recommendation_agent"
    ELSE IF node \in SpecialistNodes THEN "human"
    ELSE "END"

\* Faulty variant: the human node has an edge back to the supervisor.
next_node_human_to_supervisor(node, state) ==
    IF node = "supervisor" THEN route_agent(state)
    ELSE IF node \in SpecialistNodes THEN "human"
    ELSE "supervisor"

\* The edges of create_farm_advisor_graph: the node that runs after `node` has
\* returned and its update is merged into `state`.  The human node has no
\* outgoing edge: the run ends after it.
next_node(node, state) ==
    IF node = "supervisor" THEN route_agent(state)
    ELSE IF node \in SpecialistNodes THEN "human"
    ELSE "END"

\* The agent outcomes a node can meet.
node_replies(node, double) ==
    IF node \in {"supervisor", "supervisor_response"}
    THEN create_supervisor_agent(double,
            IF node = "supervisor" THEN ClassifierAnswers ELSE ChatTexts)
    ELSE IF node = "human" THEN {NoCall}
    ELSE IF node = "conversational_agent" THEN create_specialist_agent(ChatTexts)
    ELSE IF node = "recommendation_agent" THEN create_specialist_agent(AdviceTexts)
    ELSE create_specialist_agent(ResponseTexts)

\* builder.add_node: the function behind each node name.
run_node(node, state, reply) ==
    CASE node = "supervisor"            -> create_supervisor_node(state, reply)
      [] node = "conversational_agent"  -> create_conversational_agent_node(state, reply)
      [] node = "data_extraction_agent" -> create_data_extraction_agent_node(state, reply)
      [] node = "planning_agent"        -> create_planning_agent_node(state, reply)
      [] node = "recommendation_agent"  -> create_recommendation_agent_node(state, reply)
      [] node = "supervisor_response"   -> create_supervisor_response_node(state, reply)
      [] node = "human"                 -> human_input_node(state)

\* ----------------------------------------------------------------- database
\* The tables of src/database/models.py the agents' tools write: the number of
\* Farmer rows, and the Farm, Recommendation and Plan rows in order of their
\* ids.  A Farm row keeps its farmer_id, its location (standing for the two
\* required attributes) and its soil_type (standing for the three optional
\* ones), the other two their farm_id.  The Conversation rows are kept as
\* their thread_id, the Message rows as conversation_id, role and content.

EmptyDb == [farmers |-> 0, farms |-> << >>, recommendations |-> << >>, plans |-> << >>,
            conversations |-> << >>, messages |-> << >>]

\* What a location argument can be.
Locations == {"Medenine", "Sfax"}

\* Python's None: an optional attribute that is not given.
None == "None"

\* What a soil_type argument can be.
SoilTypes == {None, "sandy"}

\* Repository.create_farmer: a new row, committed; its id is the new count.
create_farmer(db) == [db EXCEPT !.farmers = @ + 1]

\* The order in which a query without ORDER BY returns the rows of farms: the
\* order of the database's scan, which is any order (after an UPDATE the new
\* version of a row lies behind the rows that were inserted later).
ScanOrders(db) == Permutations(1..Len(db.farms))

\* The scan in the order of the ids.
IdOrder(db) == [i \in 1..Len(db.farms) |-> i]

\* Repository.get_farms_by_farmer_id: query(Farm).filter(...).all(), the ids of
\* the farmer's farms in the order of the scan.
get_farms_by_farmer_id(db, farmer_id, scan) ==
    SelectSeq(scan, LAMBDA i : db.farms[i].farmer_id = farmer_id)

\* Repository.create_farm
create_farm(db, farmer_id, location, soil_type) ==
    [db EXCEPT !.farms = Append(@, [farmer_id |-> farmer_id, location |-> location,
                                    soil_type |-> soil_type])]

\* setattr(farm, key, value) for every key of kwargs.
set_attributes(farm, kwargs) ==
    [key \in DOMAIN farm |-> IF key \in DOMAIN kwargs THEN kwargs[key] ELSE farm[key]]

\* Faulty variant: overwriting a farm deletes the advice given for it before.
update_farm_drops_advice(db, farm_id, kwargs) ==
    IF farm_id \in 1..Len(db.farms)
    THEN [db EXCEPT !.farms[farm_id] = set_attributes(@, kwargs),
                    !.recommendations = SelectSeq(@, LAMBDA r : r # farm_id),
                    !.plans = SelectSeq(@, LAMBDA r : r # farm_id)]
    ELSE db

\* Repository.update_farm(farm_id, **kwargs): every attribute named in kwargs
\* is overwritten with the value given, None included.
update_farm(db, farm_id, kwargs) ==
    IF farm_id \in 1..Len(db.farms)
    THEN [db EXCEPT !.farms[farm_id] = set_attributes(@, kwargs)]
    ELSE db

\* Repository.save_farm_data_from_extraction: existing_farms[-1], the last
\* farm the query returned, is updated when the farmer has farms; a farm is
\* created otherwise.  Either way every attribute is passed on, an optional one
\* that the caller left out as None.
save_farm_data_from_extraction(db, farmer_id, location, soil_type, scan) ==
    LET existing_farms == get_farms_by_farmer_id(db, farmer_id, scan)
    IN  IF existing_farms # << >>
        THEN update_farm(db, existing_farms[Len(existing_farms)],
                         [location |-> location, soil_type |-> soil_type])
        ELSE create_farm(db, farmer_id, location, soil_type)

\* Repository.create_recommendation; the foreign key farm_id has to name a
\* Farm row, or the commit raises.
create_recommendation(db, farm_id) ==
    IF farm_id \in 1..Len(db.farms)
    THEN [ok |-> TRUE, db |-> [db EXCEPT !.recommendations = Append(@, farm_id)]]
    ELSE [ok |-> FALSE, db |-> db]

\* Repository.create_plan, likewise.
create_plan(db, farm_id) ==
    IF farm_id \in 1..Len(db.farms)
    THEN [ok |-> TRUE, db |-> [db EXCEPT !.plans = Append(@, farm_id)]]
    ELSE [ok |-> FALSE, db |-> db]

\* Repository.get_conversation_by_thread_id: the id of the row with that
\* thread_id (the column is unique), 0 for None.
get_conversation_by_thread_id(db, thread_id) ==
    IF \E i \in 1..Len(db.conversations) : db.conversations[i] = thread_id
    THEN CHOOSE i \in 1..Len(db.conversations) : db.conversations[i] = thread_id
    ELSE 0

\* Repository.create_conversation(farmer_id): the row's thread_id is a uuid4
\* drawn here (`uuid`); the method has no thread_id parameter.
create_conversation(db, uuid) == [db EXCEPT !.conversations = Append(@, uuid)]

\* Repository.add_message
add_message(db, conversation_id, role, content) ==
    [db EXCEPT !.messages = Append(@, [conversation_id |-> conversation_id,
                                       role |-> role, content |-> content])]

\* Repository.get_messages_by_conversation_id: the rows in order of created_at.
get_messages_by_conversation_id(db, conversation_id) ==
    SelectSeq(db.messages, LAMBDA r : r.conversation_id = conversation_id)

\* Repository.save_conversation_history: the conversation found under
\* thread_id, or a new one, and the two messages added to it.
save_conversation_history(db, thread_id, user_message, assistant_message, uuid) ==
    LET found        == get_conversation_by_thread_id(db, thread_id)
        with_row     == IF found = 0 THEN create_conversation(db, uuid) ELSE db
        conversation == IF found = 0 THEN Len(with_row.conversations) ELSE found
    IN  add_message(add_message(with_row, conversation, "user", user_message),
                    conversation, "assistant", assistant_message)

\* Faulty variant: the farmer is created only when there is none yet.
save_extracted_data_reuses_farmer(db, location, soil_type, outcome) ==
    IF outcome = "error" THEN db
    ELSE LET with_farmer == IF db.farmers = 0 THEN create_farmer(db) ELSE db
         IN  IF outcome = "bad_surface_area" THEN with_farmer
             ELSE save_farm_data_from_extraction(with_farmer, with_farmer.farmers, location,
                                                 soil_type, IdOrder(with_farmer))

\* The tool save_extracted_data: a new farmer every time, then the farm of
\* that farmer (who has none yet, so that the order of the scan is of no
\* account).  outcome "error" is an exception before the first commit (no
\* connection), "bad_surface_area" one raised by float(surface_area), after the
\* farmer is committed; both are caught and reported to the agent as text.
save_extracted_data(db, location, soil_type, outcome) ==
    IF outcome = "error" THEN db
    ELSE LET with_farmer == create_farmer(db)
         IN  IF outcome = "bad_surface_area" THEN with_farmer
             ELSE save_farm_data_from_extraction(with_farmer, with_farmer.farmers, location,
                                                 soil_type, IdOrder(with_farmer))

\* Repository.get_latest_farm: the row created last (order_by created_at desc,
\* first), as its id; 0 for None.
get_latest_farm(db) == Len(db.farms)

\* The tool get_latest_farm_data of the recommendation and the planning agent:
\* the farm_id of the farm it reports, 0 for "No farm data available".  It has
\* no parameter.
get_latest_farm_data(db) == get_latest_farm(db)

\* The tool save_recommendation.
save_recommendation(db, farm_id, outcome) ==
    IF outcome = "error" THEN db ELSE create_recommendation(db, farm_id).db

\* The tool save_plan.
save_plan(db, farm_id, outcome) ==
    IF outcome = "error" THEN db ELSE create_plan(db, farm_id).db

\* One tool call of an agent, with the arguments its model chose.
run_tool(db, tc) ==
    CASE tc.tool = "save_extracted_data" ->
            save_extracted_data(db, tc.location, tc.soil_type, tc.outcome)
      [] tc.tool = "save_recommendation" -> save_recommendation(db, tc.farm_id, tc.outcome)
      [] tc.tool = "save_plan"           -> save_plan(db, tc.farm_id, tc.outcome)

\* The tool calls of one invocation, in order.
RECURSIVE run_tools(_, _)
run_tools(db, tcs) ==
    IF tcs = << >> THEN db ELSE run_tools(run_tool(db, Head(tcs)), Tail(tcs))

\* Faulty variant: every agent is built with the extraction agent's tools.
agent_tools_shared(node) ==
    IF node \in {"conversational_agent", "data_extraction_agent", "recommendation_agent",
                 "planning_agent"}
    THEN {[tool |-> "save_extracted_data", location |-> l, soil_type |-> None,
           farm_id |-> 0, outcome |-> "ok"] : l \in Locations}
    ELSE {}

\* The writing tool calls the agent behind a node can make: the tools each
\* factory gives its agent (the conversational agent has none, the
\* supervisor's change nothing; get_latest_farm_data and analyze_user_request
\* only read).
agent_tools(node) ==
    CASE node = "data_extraction_agent" ->
            {[tool |-> "save_extracted_data", location |-> l, soil_type |-> None,
              farm_id |-> 0, outcome |-> "ok"] : l \in Locations}
            \cup {[tool |-> "save_extracted_data", location |-> "Medenine",
                   soil_type |-> "sandy", farm_id |-> 0, outcome |-> "ok"]}
            \cup {[tool |-> "save_extracted_data", location |-> "Medenine",
                   soil_type |-> None, farm_id |-> 0, outcome |-> o] :
                      o \in {"bad_surface_area", "error"}}
      [] node = "recommendation_agent" ->
            {[tool |-> "save_recommendation", location |-> "", soil_type |-> None,
              farm_id |-> f, outcome |-> "ok"] : f \in 1..MaxFarmId}
            \cup {[tool |-> "save_recommendation", location |-> "", soil_type |-> None,
                   farm_id |-> 1, outcome |-> "error"]}
      [] node = "planning_agent" ->
            {[tool |-> "save_plan", location |-> "", soil_type |-> None,
              farm_id |-> f, outcome |-> "ok"] : f \in 1..MaxFarmId}
            \cup {[tool |-> "save_plan", location |-> "", soil_type |-> None,
                   farm_id |-> 1, outcome |-> "error"]}
      [] OTHER -> {}

\* The sequences of tool calls one invocation of the node's agent can make; a
\* backend model without tool calling makes none.
tool_runs(node, tool_calling) ==
    IF tool_calling
    THEN UNION {[1..n -> agent_tools(node)] : n \in 0..MaxToolCalls}
    ELSE {<< >>}

\* ------------------------------------------------------------- ollama_utils
\* check_model_tool_support: two requests to the backend.  The first one
\* (/api/chat/completions, declaring a tool) answers with status 200 ("ok"),
\* with another status, or raises ("error": timeout, connection refused).

ProbeOutcomes == {"ok", "status", "error"}

\* The tokens of the text the JSON-mode request (/api/generate) is answered
\* with: brackets, the strings "name" and "age", anything else.
ProbeTokens == {"{", "}", "[", "]", "name", "age", "x"}

ProbeTexts == UNION {[1..n -> ProbeTokens] : n \in 0..MaxProbeLen}

\* What the second request meets: its outcome and, for status 200, its body:
\* "invalid" when response.json() raises (no JSON, or no object), "null" when
\* the "response" member is no string, "text" when it is the string `text`.
ProbeReplies ==
    [kind : {"status", "error"}, body : {"none"}, text : {<< >>}]
        \cup [kind : {"ok"}, body : {"invalid", "null"}, text : {<< >>}]
        \cup [kind : {"ok"}, body : {"text"}, text : ProbeTexts]

\* json.loads on a whole text: an object or a list of the strings "name" and
\* "age" (for an object, its keys), or one such string; ok = FALSE is
\* json.JSONDecodeError.
loads(text) ==
    LET inner == {text[i] : i \in 2..(Len(text) - 1)}
    IN  IF Len(text) >= 2 /\ text[1] = "{" /\ text[Len(text)] = "}"
           /\ inner \subseteq {"name", "age"}
        THEN [ok |-> TRUE, type |-> "dict", items |-> inner]
        ELSE IF Len(text) >= 2 /\ text[1] = "[" /\ text[Len(text)] = "]"
                /\ inner \subseteq {"name", "age"}
        THEN [ok |-> TRUE, type |-> "list", items |-> inner]
        ELSE IF Len(text) = 1 /\ text[1] \in {"name", "age"}
        THEN [ok |-> TRUE, type |-> "str", items |-> {text[1]}]
        ELSE [ok |-> FALSE, type |-> "none", items |-> {}]

\* Whether an except clause catches an exception.
catches(clause, exception) == clause = "Exception" \/ clause = exception

\* Faulty variant: the probe field is looked for in any parsed value.
structured_output_any_value(reply) ==
    IF reply.kind = "error" THEN [value |-> FALSE, exception |-> "ConnectError"]
    ELSE IF reply.kind # "ok" THEN [value |-> FALSE, exception |-> "none"]
    ELSE IF reply.body = "invalid" THEN [value |-> FALSE, exception |-> "ValueError"]
    ELSE LET json_response == loads(reply.text)
             inner == IF reply.body = "null" THEN "TypeError"
                      ELSE IF ~json_response.ok THEN "JSONDecodeError"
                      ELSE "none"
         IN  IF inner # "none"
             THEN [value |-> FALSE,
                   exception |-> IF catches("JSONDecodeError", inner) THEN "none" ELSE inner]
             ELSE [value |-> "name" \in json_response.items, exception |-> "none"]

\* The body of the second try block: the value it returns, or the exception that
\* leaves it.  json.loads raises TypeError on a response that is no string and
\* JSONDecodeError on a text that is no JSON; the inner try catches
\* json.JSONDecodeError alone and falls through to return False.
structured_output(reply) ==
    IF reply.kind = "error" THEN [value |-> FALSE, exception |-> "ConnectError"]
    ELSE IF reply.kind # "ok" THEN [value |-> FALSE, exception |-> "none"]
    ELSE IF reply.body = "invalid" THEN [value |-> FALSE, exception |-> "ValueError"]
    ELSE LET json_response == loads(reply.text)
             inner == IF reply.body = "null" THEN "TypeError"
                      ELSE IF ~json_response.ok THEN "JSONDecodeError"
                      ELSE "none"
         IN  IF inner # "none"
             THEN [value |-> FALSE,
                   exception |-> IF catches("JSONDecodeError", inner) THEN "none" ELSE inner]
             ELSE [value |-> json_response.type = "dict" /\ "name" \in json_response.items,
                   exception |-> "none"]

\* check_model_tool_support: what it returns, how many requests it issued and
\* whether an exception left it.  The second try block's except Exception
\* returns False.
check_model_tool_support(first, second) ==
    IF first = "ok"
    THEN [returns |-> TRUE, requests |-> 1, raised |-> FALSE]
    ELSE LET out == structured_output(second)
         IN  IF out.exception = "none"
             THEN [returns |-> out.value, requests |-> 2, raised |-> FALSE]
             ELSE IF catches("Exception", out.exception)
             THEN [returns |-> FALSE, requests |-> 2, raised |-> FALSE]
             ELSE [returns |-> FALSE, requests |-> 2, raised |-> TRUE]

\* -------------------------------------------------------------------- state

VARIABLES
    conversations,  \* memory_store, namespace ("conversations", sid): sid -> messages
    user_data,      \* memory_store, namespace ("user_data", sid): sid -> extracted_data
    uuid_count,     \* how many uuid4 tokens the program has drawn
    turns,          \* calls of run_farm_advisor begun
    double,         \* whether create_supervisor_agent is replaced by a test double
    active,         \* the threads that call into the program
    call,           \* per thread: the call it is in (or was last in)
    returned,       \* history: sid -> what the last success-path return for sid held
    db,             \* the database behind Repository
    tool_calling,   \* whether the backend model emits tool calls
    app,            \* the command-line application of app.py
    repo,           \* the last call made to a Repository directly
    utils,          \* the last call made to a function of ollama_utils.py directly
    tools           \* the last call an agent made to one of its tools, by session

vars == << conversations, user_data, uuid_count, turns, double, active, call, returned,
           db, tool_calling, app, repo, utils, tools >>

Workers == {"w1", "w2"}

\* user_input: the empty text stands for None and "" alike (both are falsy).
NoInput == << >>
UserInputs == {NoInput, << "q" >>}

\* The channels of FarmAdvisorState before the input is written to them.
EmptyChannels ==
    [messages |-> << >>, extracted_data |-> {}, planning_data |-> {},
     recommendations |-> << >>, active_agent |-> "supervisor",
     session_id |-> NoSession, iteration_count |-> 0]

NoResult == [path |-> "none", value |-> [session_id |-> NoSession, messages |-> << >>]]

NoPrevious == [known |-> FALSE, messages |-> << >>, extracted_data |-> {},
               stored |-> FALSE, known_data |-> {}]

\* A thread outside any call.  Besides the call's own data (pc, the arguments,
\* the input state, the graph state, the scheduled node, the result) the record
\* keeps what the call did: the nodes run (trace), whether each one's agent call
\* raised (raised), the agent calls made (calls), where the supervisor routed
\* (routed), the key the classifier's answer matched (label), how the
\* extraction node's parse went (payload) and the planning node's (planned), whether a uuid4 was drawn (drew),
\* whether the store read or the first store write raised, and what the
\* session's last return held (previous), and the database and the store the
\* call found (db0, store0).
IdleCall ==
    [pc |-> "idle", user_input |-> NoInput, supplied |-> NoSession,
     session_id |-> NoSession, drew |-> FALSE,
     read_failed |-> FALSE, write_failed |-> FALSE,
     previous |-> NoPrevious, input |-> EmptyChannels, state |-> EmptyChannels,
     node |-> "END", trace |-> << >>, raised |-> << >>, calls |-> << >>,
     routed |-> "none", label |-> "", payload |-> "", planned |-> "", db0 |-> EmptyDb,
     store0 |-> [conversations |-> << >>, user_data |-> << >>],
     result |-> NoResult]

\* dict-style put: f with key k set to v.
put(f, k, v) == [x \in DOMAIN f \cup {k} |-> IF x = k THEN v ELSE f[x]]

EmptyStore == [x \in {} |-> << >>]

\* app.py not started.  Besides its position (pc) and its message list the
\* record keeps the environment it runs in: whether the names it imports from
\* multi_agent_graph are defined (names_defined), whether COMBINED_PROMPT is
\* (prompt_defined), what check_ollama_availability returns (ollama_ready) and
\* whether create_multi_agent_graph returns (graph_ok), the database the
\* process found when it was started (found); and what it did: which loop
\* handled each turn (handled) and the attempts of the last completion.
AppOff ==
    [pc |-> "off", names_defined |-> FALSE, prompt_defined |-> FALSE,
     ollama_ready |-> FALSE, graph_ok |-> FALSE, found |-> EmptyDb,
     messages |-> << >>, handled |-> << >>, attempts |-> 0]

\* No call made to a Repository directly yet.  The record keeps the last call
\* (op and its arguments), the database it found (before), the farmers
\* whose farms went through save_farm_data_from_extraction (saved) or through
\* create_farm called by hand (direct), and the calls of
\* save_conversation_history made so far (history).
RepoIdle ==
    [op |-> "none", farmer_id |-> 0, farm_id |-> 0, location |-> "", soil_type |-> None,
     thread_id |-> NoSession, before |-> EmptyDb, saved |-> {}, direct |-> {},
     history |-> << >>]

\* No function of ollama_utils.py called yet.  The record keeps the last call:
\* the function (op), what its requests met (first and second for the probe,
\* outcomes for the completion) and what came of it.
UtilsIdle ==
    [op |-> "none", first |-> "none",
     second |-> [kind |-> "none", body |-> "none", text |-> << >>],
     probe |-> [returns |-> FALSE, requests |-> 0, raised |-> FALSE],
     outcomes |-> << >>,
     completion |-> [ok |-> FALSE, attempts |-> 0, error |-> "none"]]

\* No tool called yet.  The record keeps the last call: the tool (op), the
\* session of the turn whose agent called it, how the call went (outcome), the
\* database it found (before), the farm get_latest_farm_data reported (seen);
\* and over all calls: the session whose agent committed each Farm row (owner)
\* and the number of calls of save_extracted_data that reported success (saves).
ToolsIdle ==
    [op |-> "none", session |-> NoSession, outcome |-> "none", before |-> EmptyDb,
     seen |-> 0, owner |-> << >>, saves |-> 0]

Init ==
    /\ conversations = EmptyStore
    /\ user_data = EmptyStore
    /\ uuid_count = 0
    /\ turns = 0
    /\ double \in BOOLEAN
    /\ active = {"w1"}
    /\ call = [w \in Workers |-> IdleCall]
    /\ returned = EmptyStore
    /\ db = EmptyDb
    /\ tool_calling = FALSE
    /\ app = AppOff
    /\ repo = RepoIdle
    /\ utils = UtilsIdle
    /\ tools = ToolsIdle

\* --------------------------------------------------------- run_farm_advisor

\* Faulty variant: the hop counter is carried on from the turns before.
initial_state_carries_count(messages, session_id, is_new, user_input) ==
    [messages |-> messages, extracted_data |-> {}, planning_data |-> {},
     recommendations |-> << >>,
     active_agent |-> IF is_new /\ user_input = NoInput THEN "human" ELSE "supervisor",
     session_id |-> session_id, iteration_count |-> Len(messages) \div 2]

\* The state dict run_farm_advisor builds (all three branches build the same
\* keys; only active_agent differs, in the new-session branch without input).
initial_state(messages, session_id, is_new, user_input) ==
    [messages |-> messages, extracted_data |-> {}, planning_data |-> {},
     recommendations |-> << >>,
     active_agent |-> IF is_new /\ user_input = NoInput THEN "human" ELSE "supervisor",
     session_id |-> session_id, iteration_count |-> 0]

\* Loading the previous conversation: what the store holds for the session, or
\* nothing when there is no entry or the read raises (caught and logged).
load_previous(store, session_id, read_ok) ==
    IF read_ok /\ session_id \in DOMAIN store THEN store[session_id] ELSE << >>

\* Faulty variant: the loaded history is dropped when there is a new input.
turn_messages_drops_history(previous_messages, user_input) ==
    IF user_input # NoInput THEN << HumanMessage(user_input) >> ELSE previous_messages

\* messages of the new turn, from the previous ones and the input.
turn_messages(previous_messages, user_input) ==
    IF user_input # NoInput /\ previous_messages # << >>
    THEN previous_messages \o << HumanMessage(user_input) >>
    ELSE IF user_input # NoInput THEN << HumanMessage(user_input) >>
    ELSE previous_messages

\* Faulty variant: every call starts a new session.
thread_id_always_new(supplied, n) == n + 1

\* The session id of the call: the one supplied, or a fresh uuid4 (the n+1st).
thread_id(supplied, n) == IF supplied # NoSession THEN supplied ELSE n + 1

\* How many new session ids the call generates: one in the new-session branch,
\* none when the caller supplied the id.
fresh_ids(supplied) == IF supplied # NoSession THEN 0 ELSE 1

\* run_farm_advisor up to graph.invoke: the session id, the loaded history, the
\* input state; a fresh graph (and checkpointer) whose entry point is scheduled.
RunFarmAdvisor(w) ==
    /\ w \in active
    /\ turns < MaxTurns
    /\ call[w].pc \in {"idle", "returned"}
    /\ \E user_input \in UserInputs,
          supplied \in {NoSession, CallerToken} \cup (1..uuid_count),
          read_ok \in BOOLEAN :
          LET is_new   == supplied = NoSession
              sid      == thread_id(supplied, uuid_count)
              previous == IF is_new THEN << >>
                          ELSE load_previous(conversations, sid, read_ok)
              input    == initial_state(turn_messages(previous, user_input),
                                        sid, is_new, user_input)
              drawn    == uuid_count + fresh_ids(supplied)
          IN  /\ (~read_ok => sid \in DOMAIN conversations /\ ~is_new)
              /\ call' = [call EXCEPT ![w] =
                    [IdleCall EXCEPT
                        !.pc = "graph", !.user_input = user_input,
                        !.supplied = supplied, !.session_id = sid,
                        !.drew = (drawn # uuid_count),
                        !.read_failed = ~read_ok,
                        !.previous = IF sid \in DOMAIN returned
                                     THEN [returned[sid] EXCEPT !.known = TRUE]
                                     ELSE NoPrevious,
                        !.input = input,
                        !.state = apply_update(EmptyChannels, input),
                        !.node = "supervisor",
                        !.db0 = db,
                        !.store0 = [conversations |-> conversations,
                                    user_data |-> user_data]]]
              /\ uuid_count' = drawn
    /\ turns' = turns + 1
    /\ UNCHANGED << conversations, user_data, double, active, returned, db, tool_calling,
                    app, repo, utils, tools >>

\* One step of graph.invoke: the scheduled node runs (its agent making the
\* tool calls it chooses to), its update is merged and the edge out of it
\* schedules the next node.  After recursion_limit steps no further node runs:
\* graph.invoke raises (GraphRaise).
GraphStep(w) ==
    /\ w \in active
    /\ call[w].pc \in {"graph", "invoke"}
    /\ call[w].node # "END"
    /\ Len(call[w].trace) < recursion_limit
    /\ \E reply \in node_replies(call[w].node, double),
          tcs \in tool_runs(call[w].node, tool_calling) :
          LET out   == run_node(call[w].node, call[w].state, reply)
              state == apply_update(call[w].state, out.update)
          IN  /\ db' = run_tools(db, tcs)
              /\ call' = [call EXCEPT
                      ![w].state  = state,
                      ![w].node   = next_node(call[w].node, state),
                      ![w].trace  = Append(call[w].trace, call[w].node),
                      ![w].raised = Append(call[w].raised,
                                           out.calls # << >> /\ reply.kind # "ok"),
                      ![w].calls  = call[w].calls \o out.calls,
                      ![w].routed = IF call[w].node = "supervisor"
                                    THEN state.active_agent ELSE call[w].routed,
                      ![w].label  = IF call[w].node = "supervisor" /\ out.calls # << >>
                                       /\ reply.kind = "ok"
                                    THEN matched_key(reply.content) ELSE call[w].label,
                      ![w].payload = IF call[w].node = "data_extraction_agent"
                                        /\ reply.kind = "ok"
                                     THEN payload_class(reply.content) ELSE call[w].payload,
                      ![w].planned = IF call[w].node = "planning_agent"
                                        /\ reply.kind = "ok"
                                     THEN payload_class(reply.content) ELSE call[w].planned]
    /\ UNCHANGED << conversations, user_data, uuid_count, turns, double, active, returned,
                    tool_calling, app, repo, utils, tools >>

\* Faulty variant: the outer except logs and re-raises.
error_result_reraises(input, session_id) ==
    [path |-> "raised", value |-> [messages |-> << >>, session_id |-> NoSession]]

\* What the outer except of run_farm_advisor returns.
error_result(input, session_id) ==
    [path |-> "error",
     value |-> [messages |-> Append(input.messages, AIMessage(GraphErrMsg)),
                session_id |-> session_id]]

\* Faulty variant: the outer except stores what it returns.
error_store_puts(store, session_id, result) == put(store, session_id, result.messages)

\* memory_store after the outer except: it makes no put.
error_store(store, session_id, result) == store

\* graph.invoke raises: the outer except returns the basic state; nothing is
\* stored.
GraphRaise(w) ==
    /\ w \in active
    /\ call[w].pc = "graph"
    /\ call[w].node # "END"
    /\ LET result == error_result(call[w].input, call[w].session_id)
       IN  /\ call' = [call EXCEPT ![w].pc = "returned", ![w].result = result]
           /\ conversations' = error_store(conversations, call[w].session_id, result.value)
    /\ UNCHANGED << user_data, uuid_count, turns, double, active, returned,
                    db, tool_calling, app, repo, utils, tools >>

\* What the success path returns: the graph's final state with the session id.
success_result(state, session_id) ==
    [path |-> "success", value |-> [state EXCEPT !.session_id = session_id]]

\* Faulty variant: every session's history is put under one key.
store_conversations_one_key(store, session_id, result, written) ==
    IF written >= 1 THEN put(store, CallerToken, result.messages) ELSE store

\* The two memory_store.put calls of the success path.  `written` is how many
\* puts went through before one raised (caught and logged): 0, 1 or 2.
store_conversations(store, session_id, result, written) ==
    IF written >= 1 THEN put(store, session_id, result.messages) ELSE store

store_user_data(store, session_id, result, written) ==
    IF written >= 2 /\ result.extracted_data # {}
    THEN put(store, session_id, result.extracted_data) ELSE store

\* graph.invoke has returned: the result is stored and returned.
Return(w) ==
    /\ w \in active
    /\ call[w].pc = "graph"
    /\ call[w].node = "END"
    /\ LET result == success_result(call[w].state, call[w].session_id)
           sid    == call[w].session_id
       IN  \E written \in 0..2 :
              /\ (written = 1 => result.value.extracted_data # {})
              /\ conversations' = store_conversations(conversations, sid, result.value, written)
              /\ user_data' = store_user_data(user_data, sid, result.value, written)
              /\ call' = [call EXCEPT ![w].pc = "returned", ![w].result = result,
                                      ![w].write_failed = (written = 0)]
              /\ returned' = put(returned, sid,
                    [known |-> TRUE,
                     messages |-> result.value.messages,
                     extracted_data |-> result.value.extracted_data,
                     stored |-> written >= 1,
                     known_data |-> IF result.value.extracted_data # {}
                                    THEN result.value.extracted_data
                                    ELSE call[w].previous.known_data])
    /\ UNCHANGED << uuid_count, turns, double, active, db, tool_calling, app, repo, utils, tools >>

Next == \E w \in Workers : RunFarmAdvisor(w) \/ GraphStep(w) \/ GraphRaise(w) \/ Return(w)

\* The program behind run_farm_advisor, called by one thread.
Spec == Init /\ [][Next]_vars

\* A thread's one call of run_farm_advisor.
CallOnce(w) == call[w].pc = "idle" /\ RunFarmAdvisor(w)

\* One call of run_farm_advisor by one thread, every step that can be taken
\* being taken in the end: a node that has been scheduled runs (its backend call
\* returns or raises), and a graph that has ended is returned from.
SpecLive ==
    /\ Init
    /\ [][\E w \in Workers : CallOnce(w) \/ GraphStep(w) \/ GraphRaise(w) \/ Return(w)]_vars
    /\ \A w \in Workers : WF_vars(GraphStep(w)) /\ WF_vars(Return(w))

\* ------------------------------------- run_farm_advisor, called by two threads

InitConc ==
    /\ conversations = EmptyStore
    /\ user_data = EmptyStore
    /\ uuid_count = 0
    /\ turns = 0
    /\ double \in BOOLEAN
    /\ active = Workers
    /\ call = [w \in Workers |-> IdleCall]
    /\ returned = EmptyStore
    /\ db = EmptyDb
    /\ tool_calling = FALSE
    /\ app = AppOff
    /\ repo = RepoIdle
    /\ utils = UtilsIdle
    /\ tools = ToolsIdle

NextConc == \E w \in Workers : CallOnce(w) \/ GraphStep(w) \/ GraphRaise(w) \/ Return(w)

\* Two threads that call run_farm_advisor once each, in any interleaving of
\* their steps: memory_store is one InMemoryStore of the module, and the code
\* takes no lock between its get and its put.
SpecConc == InitConc /\ [][NextConc]_vars

\* --------------------------------------------------- the graph, called directly

\* Histories a caller of the compiled graph can hand in.
GraphHistories ==
    { << >>,
      << HumanMessage(<< "q" >>) >>,
      << HumanMessage(<< "q" >>), AIMessage(<< "x" >>) >>,
      << HumanMessage(<< "q" >>), AIMessage(<< "x" >>), HumanMessage(<< "q" >>) >> }

\* A database that already holds one farmer with one farm.
OneFarmDb == create_farm(create_farmer(EmptyDb), 1, "Medenine", None)

\* Input states of create_farm_advisor_graph().invoke(state).
GraphInputs ==
    [messages : GraphHistories, extracted_data : SUBSET JsonMembers,
     planning_data : {{}, {"L"}}, recommendations : {<< >>, << << "x" >> >>},
     active_agent : {"supervisor"}, session_id : {CallerToken},
     iteration_count : 0..MaxCount]

InitGraph ==
    /\ conversations = EmptyStore
    /\ user_data = EmptyStore
    /\ uuid_count = 0
    /\ turns = 0
    /\ double \in BOOLEAN
    /\ active = {"w1"}
    /\ returned = EmptyStore
    /\ tool_calling \in BOOLEAN
    /\ db \in {EmptyDb, OneFarmDb}
    /\ app = AppOff
    /\ repo = RepoIdle
    /\ utils = UtilsIdle
    /\ tools = ToolsIdle
    /\ \E input \in GraphInputs :
          call = [w \in Workers |->
                    IF w = "w1"
                    THEN [IdleCall EXCEPT !.pc = "invoke", !.session_id = CallerToken,
                                          !.input = input,
                                          !.state = apply_update(EmptyChannels, input),
                                          !.node = "supervisor",
                                          !.db0 = db]
                    ELSE IdleCall]

NextGraph == \E w \in Workers : GraphStep(w)

\* The compiled graph invoked on any input state.
SpecGraph == InitGraph /\ [][NextGraph]_vars

\* ------------------------------------------------------------------- app.py

Greeting == << "Hello! I'm your Tunisian Farm Advisor." >>

\* What the user types: an exit command, or a question.
ExitCommand == << "exit" >>
AppInputs == {ExitCommand, << "q" >>}

\* One attempt of get_ollama_chat_completion: status 200, another status, a
\* timeout, or any other exception.
AttemptOutcomes == {"ok", "status", "timeout", "error"}

\* Faulty variant: the first failure is raised at once.
get_ollama_chat_completion_no_retry(outcomes, attempt) ==
    IF outcomes[attempt] = "ok"
    THEN [ok |-> TRUE, attempts |-> attempt, error |-> "none"]
    ELSE [ok |-> FALSE, attempts |-> attempt, error |-> outcomes[attempt]]

\* get_ollama_chat_completion: up to max_attempts attempts, `outcomes` being
\* what each one meets; the first with status 200 returns the content, and after
\* the last one the failure is raised to the caller.
RECURSIVE get_ollama_chat_completion(_, _)
get_ollama_chat_completion(outcomes, attempt) ==
    IF outcomes[attempt] = "ok"
    THEN [ok |-> TRUE, attempts |-> attempt, error |-> "none"]
    ELSE IF attempt < max_attempts
    THEN get_ollama_chat_completion(outcomes, attempt + 1)
    ELSE [ok |-> FALSE, attempts |-> attempt, error |-> outcomes[attempt]]

\* Entering direct_chat_mode: its import of COMBINED_PROMPT either raises
\* ImportError out of main, or the loop starts with the system prompt and the
\* greeting.
direct_chat_mode(a) ==
    IF a.prompt_defined
    THEN [a EXCEPT !.pc = "direct_loop",
                   !.messages = << [role |-> "system", content |-> << "COMBINED_PROMPT" >>],
                                   [role |-> "assistant", content |-> Greeting] >>]
    ELSE [a EXCEPT !.pc = "crashed"]

\* The import statements at the top of app.py: create_multi_agent_graph and
\* create_simple_graph have to be names of multi_agent_graph.
AppImport ==
    /\ app.pc = "import"
    /\ app' = [app EXCEPT !.pc = IF app.names_defined THEN "main" ELSE "crashed"]
    /\ UNCHANGED << conversations, user_data, uuid_count, turns, double, active, call,
                    returned, db, tool_calling, repo, utils, tools >>

\* init_db: every table is dropped (DROP TABLE IF EXISTS ... CASCADE) and
\* created again, empty.
init_db(d) == EmptyDb

\* main() up to its loop: init_db, the availability check, then the agent
\* system; direct_chat_mode when Ollama is not ready or the agent system cannot
\* be built.  check_model_tool_support is not called.  When the database
\* cannot be reached init_db raises, out of main.
AppMain ==
    /\ app.pc = "main"
    /\ \E connected \in BOOLEAN :
          IF connected
          THEN /\ db' = init_db(db)
               /\ app' = IF ~app.ollama_ready \/ ~app.graph_ok
                         THEN direct_chat_mode(app)
                         ELSE [app EXCEPT
                                  !.pc = "graph_loop",
                                  !.messages = << [role |-> "assistant",
                                                   content |-> Greeting] >>]
          ELSE /\ db' = db
               /\ app' = [app EXCEPT !.pc = "crashed"]
    /\ UNCHANGED << conversations, user_data, uuid_count, turns, double, active, call,
                    returned, tool_calling, repo, utils, tools >>

\* The user types an exit command, in either loop.
AppExit ==
    /\ app.pc \in {"graph_loop", "direct_loop"}
    /\ app' = [app EXCEPT !.pc = "exited"]
    /\ UNCHANGED << conversations, user_data, uuid_count, turns, double, active, call,
                    returned, db, tool_calling, repo, utils, tools >>

\* One turn of main's loop: the input is appended and the agent system is
\* streamed.  The chunks hold a response or none; or the stream raises, the
\* error is appended as an assistant message, and after a timeout or connection
\* error the user may switch to direct_chat_mode.
AppGraphTurn ==
    /\ app.pc = "graph_loop"
    /\ Len(app.handled) < MaxTurns
    /\ \E user_input \in AppInputs \ {ExitCommand},
          outcome \in {"response", "nothing", "timeout", "error"},
          switch \in BOOLEAN :
          LET asked == [app EXCEPT
                           !.messages = Append(@, [role |-> "user", content |-> user_input]),
                           !.handled = Append(@, "agent_system")]
          IN  /\ (switch => outcome = "timeout")
              /\ app' =
                    IF outcome = "response"
                    THEN [asked EXCEPT !.messages =
                             Append(@, [role |-> "assistant", content |-> << "x" >>])]
                    ELSE IF outcome = "nothing" THEN asked
                    ELSE LET failed == [asked EXCEPT !.messages =
                                 Append(@, [role |-> "assistant", content |-> << outcome >>])]
                         IN  IF switch THEN direct_chat_mode(failed) ELSE failed
    /\ UNCHANGED << conversations, user_data, uuid_count, turns, double, active, call,
                    returned, db, tool_calling, repo, utils, tools >>

\* One turn of direct_chat_mode's loop: the input is appended and the whole
\* list sent to get_ollama_chat_completion; the response is appended, an
\* exception is shown and not appended.  Nothing is written to the database.
AppDirectTurn ==
    /\ app.pc = "direct_loop"
    /\ Len(app.handled) < MaxTurns
    /\ \E user_input \in AppInputs \ {ExitCommand},
          outcomes \in [1..max_attempts -> AttemptOutcomes] :
          LET asked == [app EXCEPT
                           !.messages = Append(@, [role |-> "user", content |-> user_input]),
                           !.handled = Append(@, "direct_chat_mode")]
              response == get_ollama_chat_completion(outcomes, 1)
          IN  app' = [asked EXCEPT
                         !.attempts = response.attempts,
                         !.messages = IF response.ok
                                      THEN Append(@, [role |-> "assistant",
                                                      content |-> << "x" >>])
                                      ELSE @]
    /\ UNCHANGED << conversations, user_data, uuid_count, turns, double, active, call,
                    returned, db, tool_calling, repo, utils, tools >>

\* python app.py, in any environment; the database is the one earlier runs of
\* the program left (empty, or holding a farm).
InitApp ==
    /\ conversations = EmptyStore
    /\ user_data = EmptyStore
    /\ uuid_count = 0
    /\ turns = 0
    /\ double = FALSE
    /\ active = {}
    /\ call = [w \in Workers |-> IdleCall]
    /\ returned = EmptyStore
    /\ db \in {EmptyDb, OneFarmDb}
    /\ tool_calling \in BOOLEAN
    /\ repo = RepoIdle
    /\ utils = UtilsIdle
    /\ tools = ToolsIdle
    /\ \E names_defined \in BOOLEAN, prompt_defined \in BOOLEAN,
          ollama_ready \in BOOLEAN, graph_ok \in BOOLEAN :
          app = [AppOff EXCEPT !.pc = "import",
                               !.found = db,
                               !.names_defined = names_defined,
                               !.prompt_defined = prompt_defined,
                               !.ollama_ready = ollama_ready,
                               !.graph_ok = graph_ok]

NextApp == AppImport \/ AppMain \/ AppGraphTurn \/ AppDirectTurn \/ AppExit

SpecApp == InitApp /\ [][NextApp]_vars

\* ------------------------------------- ollama_utils.py, called directly

\* One call of a function of the module, its requests meeting any outcome.  The
\* functions keep nothing from one call to the next, so that one call is every
\* call.
UtilsCheckModelToolSupport ==
    /\ utils.op = "none"
    /\ \E first \in ProbeOutcomes, second \in ProbeReplies :
          utils' = [UtilsIdle EXCEPT !.op = "check_model_tool_support",
                                     !.first = first, !.second = second,
                                     !.probe = check_model_tool_support(first, second)]
    /\ UNCHANGED << conversations, user_data, uuid_count, turns, double, active, call,
                    returned, db, tool_calling, app, repo, tools >>

UtilsGetOllamaChatCompletion ==
    /\ utils.op = "none"
    /\ \E outcomes \in [1..max_attempts -> AttemptOutcomes] :
          utils' = [UtilsIdle EXCEPT !.op = "get_ollama_chat_completion",
                                     !.outcomes = outcomes,
                                     !.completion = get_ollama_chat_completion(outcomes, 1)]
    /\ UNCHANGED << conversations, user_data, uuid_count, turns, double, active, call,
                    returned, db, tool_calling, app, repo, tools >>

InitUtils ==
    /\ conversations = EmptyStore
    /\ user_data = EmptyStore
    /\ uuid_count = 0
    /\ turns = 0
    /\ double = FALSE
    /\ active = {}
    /\ call = [w \in Workers |-> IdleCall]
    /\ returned = EmptyStore
    /\ db = EmptyDb
    /\ tool_calling = FALSE
    /\ app = AppOff
    /\ repo = RepoIdle
    /\ utils = UtilsIdle
    /\ tools = ToolsIdle

NextUtils == UtilsCheckModelToolSupport \/ UtilsGetOllamaChatCompletion

SpecUtils == InitUtils /\ [][NextUtils]_vars

\* ------------------------------------------------ the tools, called by agents

\* The sessions whose turns run the agents.
ToolSessions == {1, 2}

\* The extraction agent of a turn of session `sid` calls save_extracted_data.
ToolSaveExtractedData ==
    /\ Len(db.farms) < MaxRows
    /\ db.farmers < 2 * MaxRows
    /\ \E sid \in ToolSessions, location \in Locations, soil_type \in SoilTypes,
          outcome \in {"ok", "bad_surface_area", "error"} :
          LET after == save_extracted_data(db, location, soil_type, outcome)
          IN  /\ db' = after
              /\ tools' = [tools EXCEPT
                    !.op = "save_extracted_data", !.session = sid, !.outcome = outcome,
                    !.before = db, !.seen = 0,
                    !.owner = @ \o [i \in 1..(Len(after.farms) - Len(db.farms)) |-> sid],
                    !.saves = IF outcome = "ok" THEN @ + 1 ELSE @]
    /\ UNCHANGED << conversations, user_data, uuid_count, turns, double, active, call,
                    returned, tool_calling, app, repo, utils >>

\* The recommendation or the planning agent of a turn of session `sid` calls
\* get_latest_farm_data.
ToolGetLatestFarmData ==
    /\ \E sid \in ToolSessions :
          tools' = [tools EXCEPT
                !.op = "get_latest_farm_data", !.session = sid, !.outcome = "ok",
                !.before = db, !.seen = get_latest_farm_data(db)]
    /\ UNCHANGED << conversations, user_data, uuid_count, turns, double, active, call,
                    returned, db, tool_calling, app, repo, utils >>

InitTools ==
    /\ conversations = EmptyStore
    /\ user_data = EmptyStore
    /\ uuid_count = 0
    /\ turns = 0
    /\ double = FALSE
    /\ active = {}
    /\ call = [w \in Workers |-> IdleCall]
    /\ returned = EmptyStore
    /\ db = EmptyDb
    /\ tool_calling = TRUE
    /\ app = AppOff
    /\ repo = RepoIdle
    /\ utils = UtilsIdle
    /\ tools = ToolsIdle

NextTools == ToolSaveExtractedData \/ ToolGetLatestFarmData

\* The tools of the agents called in any order, by the agents of any session's
\* turns, on a database that starts empty.
SpecTools == InitTools /\ [][NextTools]_vars

\* ------------------------------------------- the Repository, called directly

\* The call a Repository method makes leaves in `repo`.
called(op, farmer_id, farm_id, location, soil_type) ==
    [repo EXCEPT !.op = op, !.farmer_id = farmer_id, !.farm_id = farm_id,
                 !.location = location, !.soil_type = soil_type,
                 !.thread_id = NoSession, !.before = db]

\* Whether a table has room for one more row.
has_room(rows) ==
    /\ rows < MaxRows
    /\ db.farmers + Len(db.farms) + Len(db.recommendations) + Len(db.plans)
          + Len(repo.history) < MaxRows + 2

RepoCreateFarmer ==
    /\ has_room(db.farmers)
    /\ db' = create_farmer(db)
    /\ repo' = called("create_farmer", db.farmers + 1, 0, "", None)
    /\ UNCHANGED << conversations, user_data, uuid_count, turns, double, active, call,
                    returned, tool_calling, app, utils, tools >>

RepoCreateFarm ==
    /\ has_room(Len(db.farms))
    /\ \E farmer_id \in 1..db.farmers, location \in Locations, soil_type \in SoilTypes :
          /\ db' = create_farm(db, farmer_id, location, soil_type)
          /\ repo' = [called("create_farm", farmer_id, Len(db.farms) + 1, location, soil_type)
                         EXCEPT !.direct = @ \cup {farmer_id}]
    /\ UNCHANGED << conversations, user_data, uuid_count, turns, double, active, call,
                    returned, tool_calling, app, utils, tools >>

\* The keyword arguments of a call of update_farm: one attribute, or both.
UpdateArgs ==
    {[location |-> l] : l \in Locations}
        \cup {[soil_type |-> t] : t \in SoilTypes}
        \cup {[location |-> "Sfax", soil_type |-> t] : t \in SoilTypes}

\* update_farm with any id and any attributes: a row that does not exist is
\* left alone.
RepoUpdateFarm ==
    /\ \E farm_id \in 1..MaxRows, kwargs \in UpdateArgs :
          /\ db' = update_farm(db, farm_id, kwargs)
          /\ repo' = called("update_farm", 0, farm_id,
                            IF "location" \in DOMAIN kwargs THEN kwargs.location ELSE "",
                            IF "soil_type" \in DOMAIN kwargs THEN kwargs.soil_type ELSE None)
    /\ UNCHANGED << conversations, user_data, uuid_count, turns, double, active, call,
                    returned, tool_calling, app, utils, tools >>

RepoSaveFarmData ==
    /\ \E farmer_id \in 1..db.farmers, location \in Locations, soil_type \in SoilTypes,
          scan \in ScanOrders(db) :
          /\ has_room(Len(db.farms)) \/ get_farms_by_farmer_id(db, farmer_id, scan) # << >>
          /\ db' = save_farm_data_from_extraction(db, farmer_id, location, soil_type, scan)
          /\ repo' = [called("save_farm_data_from_extraction", farmer_id, 0, location,
                             soil_type)
                         EXCEPT !.saved = @ \cup {farmer_id}]
    /\ UNCHANGED << conversations, user_data, uuid_count, turns, double, active, call,
                    returned, tool_calling, app, utils, tools >>

\* create_recommendation with any farm_id: the commit raises when no Farm row
\* has that id, and nothing is inserted.
RepoCreateRecommendation ==
    /\ has_room(Len(db.recommendations))
    /\ \E farm_id \in 1..MaxFarmId :
          /\ db' = create_recommendation(db, farm_id).db
          /\ repo' = called("create_recommendation", 0, farm_id, "", None)
    /\ UNCHANGED << conversations, user_data, uuid_count, turns, double, active, call,
                    returned, tool_calling, app, utils, tools >>

RepoCreatePlan ==
    /\ has_room(Len(db.plans))
    /\ \E farm_id \in 1..MaxFarmId :
          /\ db' = create_plan(db, farm_id).db
          /\ repo' = called("create_plan", 0, farm_id, "", None)
    /\ UNCHANGED << conversations, user_data, uuid_count, turns, double, active, call,
                    returned, tool_calling, app, utils, tools >>

\* What the user and the assistant said in a turn.
UserMessages == {<< "q" >>, << "r" >>}

\* save_conversation_history under the caller's own token or under a thread_id
\* that a Conversation row returned by an earlier call holds.
RepoSaveConversationHistory ==
    /\ has_room(Len(repo.history))
    /\ \E token \in {CallerToken} \cup (1..uuid_count), user_message \in UserMessages :
          /\ db' = save_conversation_history(db, token, user_message, << "x" >>,
                                             uuid_count + 1)
          /\ uuid_count' = IF get_conversation_by_thread_id(db, token) = 0
                           THEN uuid_count + 1 ELSE uuid_count
          /\ repo' = [called("save_conversation_history", 0, 0, "", None) EXCEPT
                         !.thread_id = token,
                         !.history = Append(@, [thread_id |-> token,
                                                user_message |-> user_message,
                                                assistant_message |-> << "x" >>])]
    /\ UNCHANGED << conversations, user_data, turns, double, active, call,
                    returned, tool_calling, app, utils, tools >>

\* The tables after init_db, and no call made yet.
InitRepo ==
    /\ conversations = EmptyStore
    /\ user_data = EmptyStore
    /\ uuid_count = 0
    /\ turns = 0
    /\ double = FALSE
    /\ active = {}
    /\ call = [w \in Workers |-> IdleCall]
    /\ returned = EmptyStore
    /\ db = EmptyDb
    /\ tool_calling = FALSE
    /\ app = AppOff
    /\ repo = RepoIdle
    /\ utils = UtilsIdle
    /\ tools = ToolsIdle

NextRepo ==
    \/ RepoCreateFarmer
    \/ RepoCreateFarm
    \/ RepoUpdateFarm
    \/ RepoSaveFarmData
    \/ RepoCreateRecommendation
    \/ RepoCreatePlan
    \/ RepoSaveConversationHistory

\* Any sequence of the writing methods of Repository.
SpecRepo == InitRepo /\ [][NextRepo]_vars

\* ------------------------------------------------------------------- claims

IsSpecialist(node) == node \in SpecialistNodes

\* The specialist nodes a call has run, in order.
SpecialistsRun(c) == SelectSeq(c.trace, IsSpecialist)

\* The call went through graph.invoke and came back on the success path.
Succeeded(c) == c.pc = "returned" /\ c.result.path = "success"

\* The messages of the graph state once the input is written to it.
EnteredMessages(c) == apply_update(EmptyChannels, c.input).messages

LastMessage(messages) == messages[Len(messages)]

EndsWithUser(messages) == messages # << >> /\ LastMessage(messages).type = "human"

\* C1: when the supervisor's answer selects a specialist node, that node is the
\* only specialist node run in the turn, it runs at most once while the turn is
\* under way, and exactly once by the time the graph has finished.
C1_RoutingDeterminism ==
    \A w \in Workers :
        LET c == call[w]
        IN  c.routed \in SpecialistNodes =>
                /\ Len(SpecialistsRun(c)) <= 1
                /\ \A i \in 1..Len(SpecialistsRun(c)) : SpecialistsRun(c)[i] = c.routed
                /\ (c.node = "END" => SpecialistsRun(c) = << c.routed >>)

C1_Witness ==
    \E w \in Workers :
        /\ Succeeded(call[w])
        /\ EndsWithUser(call[w].input.messages)
        /\ call[w].routed = "planning_agent"
        /\ call[w].trace = << "supervisor", "planning_agent", "human" >>

\* C2: in every call of run_farm_advisor at most 10 nodes are run, and
\* iteration_count is at most ceiling + 1 = 11 when the graph has finished.
C2_HopCeiling ==
    \A w \in Workers :
        LET c == call[w]
        IN  /\ Len(c.trace) <= Ceiling
            /\ (c.node = "END" => c.state.iteration_count <= Ceiling + 1)
            /\ (Succeeded(c) => c.result.value.iteration_count <= Ceiling + 1)

C2_Witness ==
    \E w \in Workers :
        /\ Succeeded(call[w])
        /\ Len(call[w].trace) = 3
        /\ call[w].trace[3] = "human"
        /\ call[w].result.value.iteration_count = 0

\* C3: a supervisor run whose incremented counter exceeds 10 makes no agent
\* call, routes to no specialist, appends exactly the fixed apology and sets
\* active_agent = human, whatever the classifier would have answered.
C3_CeilingEnforcement ==
    \A w \in Workers :
        LET c == call[w]
        IN  (c.trace = << "supervisor" >> /\ c.state.iteration_count > Ceiling) =>
                /\ c.calls = << >>
                /\ c.raised = << FALSE >>
                /\ c.routed = "human"
                /\ c.state.active_agent = "human"
                /\ c.node = "END"
                /\ c.state.messages =
                       Append(EnteredMessages(c),
                              [id |-> Len(EnteredMessages(c)) + 1, type |-> "ai",
                               content |-> CeilingMsg])

C3_Witness ==
    \E w \in Workers :
        /\ double
        /\ call[w].trace = << "supervisor" >>
        /\ EndsWithUser(call[w].input.messages)
        /\ call[w].state.iteration_count = Ceiling + 1
        /\ LastMessage(call[w].state.messages).content = CeilingMsg

C5_ContextCarryOver ==
    \A w \in Workers :
        LET c == call[w]
        IN  c.previous.known_data # {} =>
                \A i \in 1..Len(c.calls) :
                    c.calls[i].to \in {"recommendation", "planning"} =>
                        c.calls[i].extracted = c.previous.known_data

\* C6 as stated: every field of the extracted_data that turn N of a session
\* returned is still in the extracted_data that turn N+1 returns.
C6_ContextMonotonicity ==
    \A w \in Workers :
        LET c == call[w]
        IN  (Succeeded(c) /\ c.previous.known) =>
                c.previous.extracted_data \subseteq c.result.value.extracted_data

C8_SessionIdStability ==
    \A w \in Workers :
        LET c == call[w]
        IN  c.pc = "returned" =>
                /\ (c.supplied # NoSession =>
                        c.result.value.session_id = c.supplied /\ ~c.drew)
                /\ (c.supplied = NoSession =>
                        /\ c.drew
                        /\ c.result.value.session_id \notin {NoSession, CallerToken}
                        /\ ~c.previous.known)

C8_Witness ==
    \E w \in Workers :
        LET c == call[w]
        IN  /\ c.pc = "returned"
            /\ c.result.path = "error"
            /\ c.supplied = 1
            /\ c.previous.known
            /\ c.result.value.session_id = 1

\* C9: whatever fails (the store read, the classifier call, a specialist call,
\* graph.invoke, the store writes), a call of run_farm_advisor that has begun
\* can go on to its return, and what it returns carries the call's session id
\* and a message history; nothing is raised to the caller.
C9_NoExceptionEscapes ==
    \A w \in Workers :
        LET c == call[w]
        IN  /\ (c.pc = "graph" /\ c.node = "END" => ENABLED Return(w))
            /\ (c.pc = "graph" /\ c.node # "END" =>
                    node_replies(c.node, double) # {} /\ ENABLED GraphRaise(w))
            /\ (c.pc = "returned" =>
                    /\ c.result.path \in {"success", "error"}
                    /\ c.result.value.session_id = c.session_id
                    /\ (c.user_input # NoInput => c.result.value.messages # << >>))

C9_Witness ==
    \E w \in Workers :
        LET c == call[w]
        IN  /\ Succeeded(c)
            /\ c.read_failed
            /\ c.write_failed
            /\ c.raised = << FALSE, TRUE, FALSE >>

\* The apology each specialist node returns when its agent call raises.
ApologyOf(node) ==
    CASE node = "conversational_agent"  -> ConvErrMsg
      [] node = "data_extraction_agent" -> ExtractErrMsg
      [] node = "planning_agent"        -> PlanErrMsg
      [] node = "recommendation_agent"  -> RecErrMsg
      [] node = "supervisor_response"   -> DirectErrMsg

\* C10: when the agent call of a specialist node raises, the node appends
\* exactly its own apology to the history, the human node is scheduled and runs
\* next, the graph then ends, and extracted_data, planning_data and
\* recommendations are the ones the graph was entered with.
C10_SpecialistFailure ==
    \A w \in Workers :
        LET c == call[w]
        IN  (Len(c.trace) >= 2 /\ c.trace[2] \in SpecialistNodes /\ c.raised[2]) =>
                /\ c.state.messages =
                       Append(EnteredMessages(c),
                              [id |-> Len(EnteredMessages(c)) + 1, type |-> "ai",
                               content |-> ApologyOf(c.trace[2])])
                /\ \A n \in SpecialistNodes \ {c.trace[2]} :
                       LastMessage(c.state.messages).content # ApologyOf(n)
                /\ c.state.extracted_data = c.input.extracted_data
                /\ c.state.planning_data = c.input.planning_data
                /\ c.state.recommendations = c.input.recommendations
                /\ (Len(c.trace) = 2 =>
                        c.node = "human" /\ c.state.active_agent = "human"
                        /\ ENABLED GraphStep(w))
                /\ (Len(c.trace) > 2 =>
                        c.trace = << "supervisor", c.trace[2], "human" >> /\ c.node = "END")

C10_Witness ==
    \E w \in Workers :
        LET c == call[w]
        IN  /\ c.trace = << "supervisor", "data_extraction_agent", "human" >>
            /\ c.raised = << FALSE, TRUE, FALSE >>
            /\ c.input.extracted_data # {}
            /\ c.input.recommendations # << >>
            /\ c.node = "END"

\* The message a node appends to the history the graph was entered with.
Appended(c, content) ==
    Append(EnteredMessages(c),
           [id |-> Len(EnteredMessages(c)) + 1, type |-> "ai", content |-> content])

\* The supervisor's call to the classifier failed (the factory or the invocation
\* raised).
ClassifierFailed(c) == Len(c.trace) >= 1 /\ c.trace[1] = "supervisor" /\ c.raised[1]

\* C11 as stated: when the classifier call fails, the turn is routed to the
\* conversational node and no apology for the failure is shown.
C11_ClassifierFailureDefaults ==
    \A w \in Workers :
        LET c == call[w]
        IN  ClassifierFailed(c) =>
                /\ c.routed = "conversational_agent"
                /\ \A i \in 1..Len(c.state.messages) :
                       c.state.messages[i].content # SupervisorErrMsg

\* C11, amended: when the classifier call fails, the supervisor catches the
\* failure, appends its fixed apology and sets active_agent = human; the graph
\* ends without any specialist node, and run_farm_advisor returns on its success
\* path with the apology as last message.
C11_ClassifierFailureApology ==
    \A w \in Workers :
        LET c == call[w]
        IN  ClassifierFailed(c) =>
                /\ c.trace = << "supervisor" >>
                /\ c.routed = "human"
                /\ c.node = "END"
                /\ c.calls = << AgentCall("supervisor", {}, {}) >>
                /\ c.state.messages = Appended(c, SupervisorErrMsg)
                /\ (c.pc = "returned" =>
                        /\ c.result.path = "success"
                        /\ LastMessage(c.result.value.messages).content = SupervisorErrMsg)

C11_Witness ==
    \E w \in Workers :
        LET c == call[w]
        IN  /\ double
            /\ Succeeded(c)
            /\ c.user_input # NoInput
            /\ c.raised = << TRUE >>
            /\ LastMessage(c.result.value.messages).content = SupervisorErrMsg

\* C12: when the classifier answers and its answer holds none of the known
\* labels, the conversational node is scheduled and is the specialist that
\* runs; the supervisor appends no message and does not hand back to the human.
C12_ClassifierDefault ==
    \A w \in Workers :
        LET c == call[w]
        IN  c.label = "none" =>
                /\ c.routed = "conversational_agent"
                /\ c.raised[1] = FALSE
                /\ (Len(c.trace) = 1 =>
                        /\ c.node = "conversational_agent"
                        /\ c.state.active_agent = "conversational_agent"
                        /\ c.state.messages = EnteredMessages(c))
                /\ (Len(c.trace) >= 2 => c.trace[2] = "conversational_agent")

C12_Witness ==
    \E w \in Workers :
        LET c == call[w]
        IN  /\ Succeeded(c)
            /\ c.label = "none"
            /\ c.trace = << "supervisor", "conversational_agent", "human" >>
            /\ c.raised = << FALSE, FALSE, FALSE >>

\* The supervisor is about to consult a working classifier: it is scheduled,
\* the history ends with a user message and the ceiling is not exceeded.
ClassifierPending(c) ==
    /\ double
    /\ c.pc \in {"graph", "invoke"}
    /\ c.node = "supervisor"
    /\ EndsWithUser(c.state.messages)
    /\ ~(c.state.iteration_count + 1 > Ceiling)

\* The node scheduled after the supervisor when the classifier answers `text`.
RouteOn(c, text) ==
    next_node("supervisor",
              apply_update(c.state, create_supervisor_node(c.state, Answer(text)).update))

\* The role each label stands for.
RoleOf(label) ==
    CASE label = "conversational"   -> "conversational_agent"
      [] label = "data_extraction"  -> "data_extraction_agent"
      [] label = "planning"         -> "planning_agent"
      [] label = "recommendation"   -> "recommendation_agent"
      [] label = "respond_directly" -> "supervisor_response"
      [] label = "direct_response"  -> "supervisor_response"

C16_ExtractionFallback ==
    \A w \in Workers :
        LET c == call[w]
        IN  c.payload \in {"no_span", "unparseable"} =>
                /\ c.trace[2] = "data_extraction_agent"
                /\ c.raised[2] = FALSE
                /\ c.state.extracted_data = {}
                /\ c.state.messages = Appended(c, ExtractAck)
                /\ (Len(c.trace) = 2 => c.node = "human")
                /\ (Len(c.trace) = 3 => c.trace[3] = "human" /\ c.node = "END")

C16_Witness ==
    \E w \in Workers :
        LET c == call[w]
        IN  /\ c.payload = "unparseable"
            /\ c.trace = << "supervisor", "data_extraction_agent", "human" >>
            /\ c.input.extracted_data # {}
            /\ c.state.extracted_data = {}
            /\ LastMessage(c.state.messages).content = ExtractAck

\* C17 as stated: whenever the graph has ended, active_agent of the resulting
\* state is human.
C17_HumanSoleTerminal ==
    \A w \in Workers :
        LET c == call[w]
        IN  /\ (c.node = "END" /\ c.trace # << >> => c.state.active_agent = "human")
            /\ (Succeeded(c) => c.result.value.active_agent = "human")

\* C17, amended: the graph ends either on an early exit of the supervisor, with
\* active_agent = human, or after the human node, run right after one specialist
\* node, which leaves active_agent = supervisor; it never ends any other way.
C17_HumanOrSupervisorExit ==
    \A w \in Workers :
        LET c == call[w]
        IN  (c.node = "END" /\ c.trace # << >>) =>
                \/ /\ c.trace = << "supervisor" >>
                   /\ c.state.active_agent = "human"
                \/ /\ Len(c.trace) = 3
                   /\ c.trace[1] = "supervisor"
                   /\ c.trace[2] \in SpecialistNodes
                   /\ c.trace[3] = "human"
                   /\ c.state.active_agent = "supervisor"
                   /\ (Succeeded(c) => c.result.value.active_agent = "supervisor")

C17_Witness ==
    \E w \in Workers :
        LET c == call[w]
        IN  /\ Succeeded(c)
            /\ c.trace = << "supervisor", "recommendation_agent", "human" >>
            /\ c.result.value.active_agent = "supervisor"

\* C18 as stated: whenever a turn has ended, iteration_count of the resulting
\* state is 0, on every path.
C18_HopCounterReset ==
    \A w \in Workers :
        LET c == call[w]
        IN  /\ (c.node = "END" /\ c.trace # << >> => c.state.iteration_count = 0)
            /\ (Succeeded(c) => c.result.value.iteration_count = 0)

\* The Farm rows created since the call began, and those created or changed.
NewFarms(c) == Len(db.farms) - Len(c.db0.farms)

FarmRowsChanged(c) ==
    NewFarms(c) + Cardinality({i \in 1..Len(c.db0.farms) : db.farms[i] # c.db0.farms[i]})

\* The specialist node `node` has run in the call and its agent call came back.
RoleSucceeded(c, node) == Len(c.trace) >= 2 /\ c.trace[2] = node /\ ~c.raised[2]

\* C15 as stated: a successful extraction call changes exactly one Farm row
\* (created or updated), however many attempts the agent made, and adds no
\* more than the one Farmer row that goes with it.
C15_IdempotentRetry ==
    \A w \in Workers :
        LET c == call[w]
        IN  RoleSucceeded(c, "data_extraction_agent") =>
                /\ FarmRowsChanged(c) = 1
                /\ db.farmers - c.db0.farmers <= 1

\* C19 as stated: a successful turn of the extraction, the recommendation or
\* the planning node has committed exactly one new Farm, Recommendation or Plan
\* row respectively.
C19_DurableSideEffect ==
    \A w \in Workers :
        LET c == call[w]
        IN  /\ (RoleSucceeded(c, "data_extraction_agent") => NewFarms(c) = 1)
            /\ (RoleSucceeded(c, "recommendation_agent") =>
                    Len(db.recommendations) - Len(c.db0.recommendations) = 1)
            /\ (RoleSucceeded(c, "planning_agent") =>
                    Len(db.plans) - Len(c.db0.plans) = 1)

\* C20: a turn routed to the conversational node leaves the database as it
\* found it (no Farm row, no Recommendation row, nothing else), and
\* extracted_data, planning_data and recommendations of the state are the ones
\* the graph was entered with, whether the agent answers or fails.
C20_ConversationalFrame ==
    \A w \in Workers :
        LET c == call[w]
        IN  c.routed = "conversational_agent" =>
                /\ db = c.db0
                /\ c.state.extracted_data = c.input.extracted_data
                /\ c.state.planning_data = c.input.planning_data
                /\ c.state.recommendations = c.input.recommendations

C20_Witness ==
    \E w \in Workers :
        LET c == call[w]
        IN  /\ tool_calling
            /\ c.trace = << "supervisor", "conversational_agent", "human" >>
            /\ c.raised = << FALSE, FALSE, FALSE >>
            /\ c.node = "END"
            /\ c.db0 = OneFarmDb
            /\ c.input.extracted_data # {}
            /\ c.input.recommendations # << >>

\* C14 as stated: when the backend model has no tool or structured-output
\* support (what check_model_tool_support reports), every turn the application
\* handles is handled by direct_chat_mode, none by the agent system with its
\* classifier and specialists.
C14_GracefulDegradation ==
    ~tool_calling =>
        \A i \in 1..Len(app.handled) : app.handled[i] = "direct_chat_mode"

IsPrefix(s, t) == Len(s) <= Len(t) /\ SubSeq(t, 1, Len(s)) = s

\* C21: over any sequence of Repository calls the Recommendation rows and the
\* Plan rows only grow: every call leaves the rows it found as they were, in
\* place, and at most appends to them.
C21_AppendOnly ==
    /\ IsPrefix(repo.before.recommendations, db.recommendations)
    /\ IsPrefix(repo.before.plans, db.plans)

C21_Witness ==
    /\ repo.op = "update_farm"
    /\ db.farms # repo.before.farms
    /\ repo.farm_id \in {db.recommendations[i] : i \in 1..Len(db.recommendations)}
    /\ repo.farm_id \in {db.plans[i] : i \in 1..Len(db.plans)}

\* The ids of a farmer's Farm rows, and the most recent of them.
FarmsOf(d, farmer_id) == {i \in 1..Len(d.farms) : d.farms[i].farmer_id = farmer_id}

MostRecent(d, farmer_id) ==
    CHOOSE i \in FarmsOf(d, farmer_id) : \A j \in FarmsOf(d, farmer_id) : j <= i

\* C30 as stated: save_farm_data_from_extraction for a farmer who has farms
\* overwrites the most recent of them and leaves every other row alone; for a
\* farmer without one it appends one row; and a farmer whose farms all came
\* from such calls has exactly one.
C30_FarmUpsert ==
    /\ repo.op = "save_farm_data_from_extraction" =>
          LET row == [farmer_id |-> repo.farmer_id, location |-> repo.location,
                      soil_type |-> repo.soil_type]
          IN  IF FarmsOf(repo.before, repo.farmer_id) # {}
              THEN db.farms = [repo.before.farms EXCEPT
                                  ![MostRecent(repo.before, repo.farmer_id)] = row]
              ELSE db.farms = Append(repo.before.farms, row)
    /\ \A farmer_id \in repo.saved \ repo.direct :
          Cardinality(FarmsOf(db, farmer_id)) = 1

\* C22 as stated: once the application is started and running, the Farm,
\* Recommendation and Plan rows that were committed before this start are still
\* in the database.
C22_DurableAcrossRestart ==
    app.pc \in {"graph_loop", "direct_loop", "exited"} =>
        /\ IsPrefix(app.found.farms, db.farms)
        /\ IsPrefix(app.found.recommendations, db.recommendations)
        /\ IsPrefix(app.found.plans, db.plans)

\* The call came back on the success path with its history read from and
\* written to the store without a failure.
Stored(c) == Succeeded(c) /\ ~c.read_failed /\ ~c.write_failed

CountOf(messages, type) == Cardinality({i \in 1..Len(messages) : messages[i].type = type})

\* C23 as stated: when two calls of run_farm_advisor with an input, made for
\* the same session by two threads, have both completed (store reads and writes
\* succeeding), the stored history of the session holds the user messages and
\* the replies of both.
C23_PerSessionSerialization ==
    \A w1 \in Workers, w2 \in Workers :
        (/\ w1 # w2
         /\ Stored(call[w1]) /\ Stored(call[w2])
         /\ call[w1].session_id = call[w2].session_id
         /\ call[w1].user_input # NoInput /\ call[w2].user_input # NoInput) =>
            LET history == conversations[call[w1].session_id]
            IN  /\ CountOf(history, "human") = 2
                /\ CountOf(history, "ai") = 2

\* The sessions a store holds something for.
Sessions == DOMAIN conversations \cup DOMAIN user_data

\* What the stores hold for a session; nothing is the empty value.
HistoryOf(store, sid) == IF sid \in DOMAIN store THEN << store[sid] >> ELSE << >>

\* C24: a step of a call made for one session, in any interleaving with the
\* calls of other sessions, leaves what memory_store holds for every other
\* session (the message history and the extracted data) as it was, and creates
\* no entry for another session.
C24_SessionIndependence ==
    [][\A w \in Workers :
          call'[w] # call[w] =>
              \A sid \in (Sessions \cup DOMAIN conversations' \cup DOMAIN user_data')
                          \ {call'[w].session_id} :
                  /\ HistoryOf(conversations', sid) = HistoryOf(conversations, sid)
                  /\ HistoryOf(user_data', sid) = HistoryOf(user_data, sid)]_vars

C24_Witness ==
    \E w1 \in Workers, w2 \in Workers :
        /\ Stored(call[w1]) /\ Stored(call[w2])
        /\ call[w1].session_id # call[w2].session_id
        /\ call[w1].trace = << "supervisor", "data_extraction_agent", "human" >>
        /\ call[w2].trace = << "supervisor", "conversational_agent", "human" >>
        /\ conversations[call[w1].session_id] = call[w1].result.value.messages
        /\ conversations[call[w2].session_id] = call[w2].result.value.messages
        /\ call[w1].session_id \in DOMAIN user_data
        /\ call[w2].session_id \notin DOMAIN user_data

\* C25: a call of run_farm_advisor runs at most three nodes (the supervisor,
\* one specialist, the human node), whatever the classifier and the specialists
\* answer and whether their calls raise; and once it has entered the graph it
\* returns, on the success path only after the graph has ended.
C25_Termination ==
    \A w \in Workers :
        /\ [](Len(call[w].trace) <= 3)
        /\ [](Succeeded(call[w]) => call[w].node = "END")
        /\ (call[w].pc = "graph") ~> (call[w].pc = "returned")

C25_Witness ==
    \E w \in Workers :
        /\ Succeeded(call[w])
        /\ call[w].trace = << "supervisor", "planning_agent", "human" >>
        /\ call[w].raised = << FALSE, TRUE, FALSE >>

\* How often a node of the set has run in the call.
RunsOf(c, nodes) == Cardinality({i \in 1..Len(c.trace) : c.trace[i] \in nodes})

\* C26: the node that runs after a specialist node is the human node, whatever
\* the state; within one run of the graph the supervisor runs at most once and
\* at most one specialist runs, once, so that the run makes at most one
\* classifier call and one specialist generation.
C26_SingleHop ==
    \A w \in Workers :
        LET c == call[w]
        IN  /\ \A i \in 1..Len(c.trace) :
                   c.trace[i] \in SpecialistNodes =>
                       (IF i < Len(c.trace) THEN c.trace[i + 1] ELSE c.node) = "human"
            /\ RunsOf(c, {"supervisor"}) <= 1
            /\ RunsOf(c, SpecialistNodes) <= 1
            /\ Len(c.calls) <= RunsOf(c, {"supervisor"}) + RunsOf(c, SpecialistNodes)
            /\ \A i \in 1..Len(c.calls) : i > 1 => c.trace[2] \in SpecialistNodes

C26_Witness ==
    \E w \in Workers :
        LET c == call[w]
        IN  /\ c.trace = << "supervisor", "data_extraction_agent", "human" >>
            /\ c.node = "END"
            /\ Len(c.calls) = 2
            /\ c.input.iteration_count = Ceiling - 1
            /\ c.input.extracted_data # {}

\* C27 as stated: until the human node runs, iteration_count is the count the
\* graph was entered with plus one for every node run so far (the supervisor
\* and each specialist raise it by one, none lowers it).
C27_HopCounterIncreases ==
    \A w \in Workers :
        LET c == call[w]
        IN  RunsOf(c, {"human"}) = 0 =>
                c.state.iteration_count = c.input.iteration_count + Len(c.trace)

\* C27, amended: only the supervisor raises the counter, by exactly one; the
\* specialist that runs after it sets the counter to 0, whether its agent
\* answers or fails, and the human node leaves it at 0.
C27_SupervisorCountsSpecialistResets ==
    \A w \in Workers :
        LET c == call[w]
        IN  /\ c.trace = << "supervisor" >> =>
                   c.state.iteration_count = c.input.iteration_count + 1
            /\ Len(c.trace) >= 2 => c.state.iteration_count = 0

C27_Witness ==
    \E w \in Workers :
        LET c == call[w]
        IN  /\ c.trace = << "supervisor", "conversational_agent" >>
            /\ c.raised = << FALSE, FALSE >>
            /\ c.node = "human"
            /\ c.input.iteration_count = Ceiling - 1
            /\ c.state.iteration_count = 0

\* The labels that occur in an answer, whatever their case, place and number.
LabelsIn(text) ==
    {label \in {"conversational", "data_extraction", "planning", "recommendation",
                "respond_directly"} : occurs_in(label, text)}

\* The role the precedence order gives to a set of labels.
RoleByPrecedence(labels) ==
    IF "conversational" \in labels THEN "conversational_agent"
    ELSE IF "data_extraction" \in labels THEN "data_extraction_agent"
    ELSE IF "planning" \in labels THEN "planning_agent"
    ELSE IF "recommendation" \in labels THEN "recommendation_agent"
    ELSE IF "respond_directly" \in labels THEN "supervisor_response"
    ELSE "conversational_agent"

\* C28: whatever the classifier answers, the node scheduled after the
\* supervisor is the role of the first label, in the order conversational,
\* data_extraction, planning, recommendation, respond_directly, that occurs in
\* the lower-cased answer: a function of the set of labels that occur, not of
\* their places or their number; and the specialist that runs is that role.
C28_ClassifierPrecedence ==
    \A w \in Workers :
        LET c == call[w]
        IN  /\ ClassifierPending(c) =>
                   \A text \in ClassifierAnswers :
                       RouteOn(c, text) = RoleByPrecedence(LabelsIn(text))
            /\ (c.label # "" /\ Len(c.trace) >= 2) =>
                   \E text \in ClassifierAnswers :
                       /\ matched_key(text) = c.label
                       /\ c.trace[2] = RoleByPrecedence(LabelsIn(text))

C28_Witness ==
    \E w \in Workers :
        LET c == call[w]
        IN  /\ c.label = "planning"
            /\ c.trace = << "supervisor", "planning_agent" >>
            /\ RoleByPrecedence(LabelsIn(<< "recommendations", "Planning" >>)) = c.trace[2]
            /\ RoleByPrecedence(LabelsIn(<< "Planning", "recommendation" >>)) = c.trace[2]
            /\ RoleByPrecedence(LabelsIn(<< "planning", "planning" >>)) = c.trace[2]

\* A text without any brace: no JSON in it, whole or partial.
NoJson(content) == \A i \in 1..Len(content) : content[i] \notin {"{", "}"}

\* C29 as stated: when the planning agent's text has no brace span, or one that
\* does not parse, planning_data is empty and the message the user is shown
\* holds no JSON, raw or partial.
C29_PlanningFallback ==
    \A w \in Workers :
        LET c == call[w]
        IN  (/\ RoleSucceeded(c, "planning_agent")
             /\ c.planned \in {"no_span", "unparseable"}) =>
                /\ c.state.planning_data = {}
                /\ NoJson(LastMessage(c.state.messages).content)

\* C31 as stated: a call of save_farm_data_from_extraction for a farmer who has
\* a farm, made without a soil_type, leaves the soil_type of every Farm row as
\* it was stored before the call.
C31_AttributesKept ==
    (/\ repo.op = "save_farm_data_from_extraction"
     /\ repo.soil_type = None
     /\ FarmsOf(repo.before, repo.farmer_id) # {}) =>
        \A i \in 1..Len(repo.before.farms) :
            db.farms[i].soil_type = repo.before.farms[i].soil_type

\* The calls of save_conversation_history made with a thread_id, in order.
SavedUnder(token) == SelectSeq(repo.history, LAMBDA h : h.thread_id = token)

\* The messages a sequence of such calls hands over, pair by pair.
RECURSIVE PairsOf(_)
PairsOf(saves) ==
    IF saves = << >> THEN << >>
    ELSE << [role |-> "user", content |-> Head(saves).user_message],
            [role |-> "assistant", content |-> Head(saves).assistant_message] >>
         \o PairsOf(Tail(saves))

\* role and content of the Message rows of a conversation, in order.
MessagesOf(conversation_id) ==
    LET rows == get_messages_by_conversation_id(db, conversation_id)
    IN  [i \in 1..Len(rows) |-> [role |-> rows[i].role, content |-> rows[i].content]]

\* C32 as stated: for every thread_id that save_conversation_history was called
\* with, exactly one Conversation row has that thread_id, and the Message rows
\* of that conversation are the pairs saved under the thread_id, in call order.
C32_KeyedBySessionToken ==
    \A i \in 1..Len(repo.history) :
        LET token == repo.history[i].thread_id
            rows == {k \in 1..Len(db.conversations) : db.conversations[k] = token}
        IN  /\ Cardinality(rows) = 1
            /\ \A k \in rows : MessagesOf(k) = PairsOf(SavedUnder(token))

\* A text that is a JSON object with the member "name".
IsObjectWithName(text) ==
    /\ Len(text) >= 3
    /\ text[1] = "{"
    /\ text[Len(text)] = "}"
    /\ \A i \in 2..(Len(text) - 1) : text[i] \in {"name", "age"}
    /\ \E i \in 2..(Len(text) - 1) : text[i] = "name"

\* C33: check_model_tool_support never raises; when the tool-declaring request
\* answers 200 it returns true after that one request; otherwise it issues the
\* JSON-mode request and returns true exactly when that one answers 200 with a
\* text that parses as a JSON object containing "name".
C33_ProbeOrder ==
    utils.op = "check_model_tool_support" =>
        /\ ~utils.probe.raised
        /\ (utils.first = "ok" => utils.probe.returns /\ utils.probe.requests = 1)
        /\ (utils.first # "ok" =>
                /\ utils.probe.requests = 2
                /\ utils.probe.returns <=>
                       /\ utils.second.kind = "ok"
                       /\ utils.second.body = "text"
                       /\ IsObjectWithName(utils.second.text))

C33_Witness ==
    /\ utils.op = "check_model_tool_support"
    /\ utils.first = "status"
    /\ utils.second.kind = "ok"
    /\ utils.second.text = << "{", "name", "}" >>
    /\ utils.probe.returns
    /\ utils.probe.requests = 2

\* C34: a non-streaming call of get_ollama_chat_completion issues at most 2
\* requests; when the first answers 200 it returns after that one; after a
\* timeout, another status or any other error on the first it issues the second
\* and returns when that one answers 200, and raises when it fails too.
C34_BoundedRetry ==
    utils.op = "get_ollama_chat_completion" =>
        /\ utils.completion.attempts \in 1..2
        /\ (utils.outcomes[1] = "ok" =>
                utils.completion.ok /\ utils.completion.attempts = 1)
        /\ (utils.outcomes[1] # "ok" =>
                /\ utils.completion.attempts = 2
                /\ utils.completion.ok <=> utils.outcomes[2] = "ok"
                /\ ~utils.completion.ok => utils.completion.error = utils.outcomes[2])

C34_Witness ==
    /\ utils.op = "get_ollama_chat_completion"
    /\ utils.outcomes = << "timeout", "ok" >>
    /\ utils.completion.ok
    /\ utils.completion.attempts = 2

\* The Farm rows committed by the agents of a session's turns.
KnownFor(sid) == {i \in 1..Len(tools.owner) : tools.owner[i] = sid}

\* C35 as stated: the farm get_latest_farm_data reports to a session's agent
\* is the latest Farm row that session's own turns committed, and none when
\* they committed none.
C35_LatestFarmOfSession ==
    tools.op = "get_latest_farm_data" =>
        IF KnownFor(tools.session) = {}
        THEN tools.seen = 0
        ELSE /\ tools.seen \in KnownFor(tools.session)
             /\ \A i \in KnownFor(tools.session) : i <= tools.seen

C36_CounterZeroOrOne ==
    \A w \in Workers :
        LET c == call[w]
        IN  /\ c.input.iteration_count = 0
            /\ c.state.iteration_count \in {0, 1}
            /\ RunsOf(c, {"supervisor"}) <= 1
            /\ (c.state.iteration_count = 1 =>
                    c.trace # << >> /\ c.trace[Len(c.trace)] = "supervisor")
            /\ \A i \in 1..Len(c.state.messages) : c.state.messages[i].content # CeilingMsg
            /\ (c.pc = "returned" =>
                    \A i \in 1..Len(c.result.value.messages) :
                        c.result.value.messages[i].content # CeilingMsg)

C36_Witness ==
    \E w \in Workers :
        LET c == call[w]
        IN  /\ turns = MaxTurns
            /\ c.supplied # NoSession
            /\ Len(c.input.messages) >= 3
            /\ c.trace = << "supervisor" >>
            /\ c.node = "data_extraction_agent"
            /\ c.state.iteration_count = 1

Contents(messages) ==
    [i \in 1..Len(messages) |-> [type |-> messages[i].type, content |-> messages[i].content]]

\* The messages a returned call's result holds beyond those the turn entered with.
Added(c) ==
    SubSeq(Contents(c.result.value.messages), Len(c.input.messages) + 1,
           Len(c.result.value.messages))

\* The result holds the turn's messages first, as they were.
KeepsHistory(c) ==
    /\ Len(c.result.value.messages) >= Len(c.input.messages)
    /\ SubSeq(Contents(c.result.value.messages), 1, Len(c.input.messages))
           = Contents(c.input.messages)

\* C38 as stated: a returned turn whose history ends with a user message has
\* appended exactly one assistant message; a returned turn whose history is
\* empty or ends otherwise has appended none and has called no agent.
C38_OneReplyPerTurn ==
    \A w \in Workers :
        LET c == call[w]
        IN  c.pc = "returned" =>
                /\ KeepsHistory(c)
                /\ IF EndsWithUser(c.input.messages)
                   THEN Len(Added(c)) = 1 /\ Added(c)[1].type = "ai"
                   ELSE Added(c) = << >> /\ c.calls = << >>

\* C38, amended: as above when graph.invoke returns; when it raises, the outer
\* except appends its one apology whatever the history ends with.
C38_OneReplyPerCompletedTurn ==
    \A w \in Workers :
        LET c == call[w]
        IN  c.pc = "returned" =>
                /\ KeepsHistory(c)
                /\ IF EndsWithUser(c.input.messages) \/ ~Succeeded(c)
                   THEN Len(Added(c)) = 1 /\ Added(c)[1].type = "ai"
                   ELSE Added(c) = << >>
                /\ (~EndsWithUser(c.input.messages) => c.calls = << >>)
                /\ (~Succeeded(c) => Added(c)[1].content = GraphErrMsg)

C38_Witness ==
    \E w \in Workers :
        LET c == call[w]
        IN  /\ Succeeded(c)
            /\ Len(c.input.messages) = 3
            /\ EndsWithUser(c.input.messages)
            /\ c.trace = << "supervisor", "data_extraction_agent", "human" >>
            /\ c.raised = << FALSE, FALSE, FALSE >>
            /\ Added(c) = << [type |-> "ai", content |-> ExtractAckData] >>

\* C39: a call that came back through the outer except has left the store as
\* it found it, and the generic apology is in no stored history and in no
\* history a later turn loads.
C39_FailedTurnNotStored ==
    /\ \A w \in Workers :
          LET c == call[w]
          IN  /\ (c.pc = "returned" /\ c.result.path = "error") =>
                    /\ conversations = c.store0.conversations
                    /\ user_data = c.store0.user_data
              /\ \A i \in 1..Len(c.input.messages) : c.input.messages[i].content # GraphErrMsg
    /\ \A sid \in DOMAIN conversations :
          \A i \in 1..Len(conversations[sid]) : conversations[sid][i].content # GraphErrMsg

\* The second turn resumes the session whose first turn failed: it starts from
\* the input alone.
C39_Witness ==
    \E w \in Workers :
        LET c == call[w]
        IN  /\ turns = 2
            /\ uuid_count = 1
            /\ c.supplied = 1
            /\ ~c.read_failed
            /\ returned = EmptyStore
            /\ conversations = EmptyStore
            /\ c.pc = "returned"
            /\ c.result.path = "error"
            /\ Contents(c.result.value.messages) =
                   << [type |-> "human", content |-> << "q" >>],
                      [type |-> "ai", content |-> GraphErrMsg] >>
====
